---- MODULE Spec2Model ----
(***************************************************************************)
(* A model of gwnl-gthb/x509-parser: the ASN.1 TLV decoder                 *)
(* (src/src/asn1-parser.ts) and the X.509 mapper built on it               *)
(* (src/unnamed/part_001, with the OID table of src/unnamed/part_000).     *)
(*                                                                         *)
(* Bytes are naturals 0..255.  A hex string is the sequence of its hex     *)
(* digits (0..15), a base64 string the sequence of its characters'         *)
(* alphabet indices (0..63, 64 for '='), a text string the sequence of its *)
(* code points, a dotted OID string the sequence of its arcs.              *)
(* JavaScript's bitwise operators work on 32-bit signed integers; the      *)
(* operators below keep that width.                                        *)
(***************************************************************************)
EXTENDS Integers, Sequences, FiniteSets, TLC

\* The decoder: the buffer and options of a parseASN1 call, the parser's
\* cursor, the nodes and errors of parse(), where the call stands, its
\* result.  The mapper: the bytes given to an entry point and what they
\* were made of, the entry point called, what the call gave, and what
\* simplifyX509Certificate made of a certificate the call gave.  Two
\* decodes at once: the ASN1Parser objects of two parseASN1 calls.
VARIABLES buffer, options, offset, nodes, errors, pc, result,
          given, made, call, outcome, simplified, runs

vars == <<buffer, options, offset, nodes, errors, pc, result,
          given, made, call, outcome, simplified, runs>>

(***************************************************************************)
(* 32-bit arithmetic of the JavaScript operators << and |                  *)
(***************************************************************************)

\* 2^n for the small exponents the model needs (2^31 is not needed).
RECURSIVE Pow2(_)
Pow2(n) == IF n = 0 THEN 1 ELSE 2 * Pow2(n - 1)

\* (x << k) as a signed 32-bit integer, for 0 < k < 32 and x a signed
\* 32-bit integer: the low 32-k bits of x move up, the top one is the sign.
Shl(x, k) ==
    LET m == Pow2(32 - k)
        u == x % m
    IN  IF u >= m \div 2 THEN (u - m) * Pow2(k) ELSE u * Pow2(k)

\* (x << k) | b for 0 <= b < 2^k: the low k bits of x << k are zero, so the
\* bitwise or is an addition.
ShlOr(x, k, b) == Shl(x, k) + b

\* 1 << n as JavaScript computes it: the shift count is taken modulo 32
\* (n is a multiple of 8 here, so the count is 0, 8, 16 or 24).
OneShl(n) == Pow2(n % 32)

(***************************************************************************)
(* Byte strings, hex strings, base64                                       *)
(***************************************************************************)

\* bytesToHex: two hex digits per byte, high digit first.
bytesToHex(bytes) ==
    [i \in 1..(2 * Len(bytes)) |->
        IF i % 2 = 1 THEN bytes[(i + 1) \div 2] \div 16
                     ELSE bytes[i \div 2] % 16]

\* ArrayBuffer.prototype.slice(begin, end): a negative index counts from the
\* end, both are clamped to 0..byteLength, and the result is empty when the
\* range is.  Byte k of the buffer is buf[k+1].
SliceIndex(n, len) == IF n < 0 THEN (IF len + n < 0 THEN 0 ELSE len + n)
                               ELSE (IF n > len THEN len ELSE n)

slice(buf, begin, end) ==
    LET first == SliceIndex(begin, Len(buf))
        final == SliceIndex(end, Len(buf))
    IN  IF first < final THEN SubSeq(buf, first + 1, final) ELSE <<>>

\* btoa(String.fromCharCode(...bytes)): three bytes give four characters,
\* the tail is padded with '=' (64).
RECURSIVE bytesToBase64(_)
bytesToBase64(bytes) ==
    IF Len(bytes) = 0 THEN <<>>
    ELSE IF Len(bytes) = 1 THEN
        << bytes[1] \div 4, (bytes[1] % 4) * 16, 64, 64 >>
    ELSE IF Len(bytes) = 2 THEN
        << bytes[1] \div 4, (bytes[1] % 4) * 16 + bytes[2] \div 16,
           (bytes[2] % 16) * 4, 64 >>
    ELSE
        << bytes[1] \div 4, (bytes[1] % 4) * 16 + bytes[2] \div 16,
           (bytes[2] % 16) * 4 + bytes[3] \div 64, bytes[3] % 64 >>
        \o bytesToBase64(SubSeq(bytes, 4, Len(bytes)))

(***************************************************************************)
(* Decoded leaf values.  A value is [kind, num, data]: kind names the      *)
(* JavaScript type, num holds a number or boolean (0/1), data a sequence.  *)
(***************************************************************************)

Val(kind, num, data) == [kind |-> kind, num |-> num, data |-> data]

\* undefined / absent
NoVal == Val("none", 0, <<>>)

\* TextDecoder("utf-8").decode: an ASCII byte is its code point; a byte
\* >= 0x80 that starts no valid sequence becomes U+FFFD.  The inputs of this
\* model hold no UTF-8 lead byte (0xC2..0xF4), so every such byte is
\* replaced on its own.
decodeString(bytes) ==
    [i \in 1..Len(bytes) |-> IF bytes[i] < 128 THEN bytes[i] ELSE 65533]

\* decodeBoolean
decodeBoolean(bytes) ==
    IF Len(bytes) # 1 THEN FALSE ELSE bytes[1] # 0

\* decodeInteger: result = (result << 8) | byte in 32 bits, then the sign
\* correction result -= 1 << (8 * length), the shift count modulo 32.
RECURSIVE IntegerAcc(_, _, _)
IntegerAcc(bytes, i, acc) ==
    IF i > Len(bytes) THEN acc
    ELSE IntegerAcc(bytes, i + 1, ShlOr(acc, 8, bytes[i]))

decodeInteger(bytes) ==
    LET acc == IntegerAcc(bytes, 1, 0)
    IN  IF Len(bytes) > 0 /\ bytes[1] >= 128
        THEN acc - OneShl(Len(bytes) * 8)
        ELSE acc

\* decodeBitString: {unusedBits, dataHex}
decodeBitString(bytes) ==
    IF Len(bytes) = 0 THEN Val("bits", 0, <<>>)
    ELSE Val("bits", bytes[1], bytesToHex(SubSeq(bytes, 2, Len(bytes))))

\* decodeOID: the arcs that parts.join('.') writes; "" is the empty list.
RECURSIVE OIDArcs(_, _, _)
OIDArcs(bytes, i, value) ==
    IF i > Len(bytes) THEN <<>>
    ELSE LET v == ShlOr(value, 7, bytes[i] % 128)
         IN  IF bytes[i] < 128 THEN <<v>> \o OIDArcs(bytes, i + 1, 0)
                               ELSE OIDArcs(bytes, i + 1, v)

decodeOID(bytes) ==
    IF Len(bytes) = 0 THEN <<>>
    ELSE << bytes[1] \div 40, bytes[1] % 40 >> \o OIDArcs(bytes, 2, 0)

\* decodeReal computes a floating-point number from the bytes and cannot
\* throw; the number is kept as the byte string it is a function of.
decodeReal(bytes) == Val("real", 0, bytes)

(***************************************************************************)
(* ASN1Parser: the cursor and the element decoder                          *)
(***************************************************************************)

\* What a throw carries: the kind of the Error and the offset its message
\* names (-1 when the message names none, as for the platform's RangeError).
Err(kind, at) == [kind |-> kind, at |-> at]
NoErr == Err("none", -1)

\* readByte: DataView.getUint8 throws a RangeError at or past the end and
\* the offset is then not advanced.
readByte(buf, off) ==
    IF off >= 0 /\ off < Len(buf)
    THEN [ok |-> TRUE, byte |-> buf[off + 1], pos |-> off + 1, err |-> NoErr]
    ELSE [ok |-> FALSE, byte |-> 0, pos |-> off, err |-> Err("RangeError", -1)]

\* readBytes without `this.offset += length`.
readBytes_NoAdvance(buf, off, length) ==
    IF length >= 0 /\ length <= Len(buf) - off
    THEN [ok |-> TRUE, bytes |-> SubSeq(buf, off + 1, off + length),
          pos |-> off, err |-> NoErr]
    ELSE [ok |-> FALSE, bytes |-> <<>>, pos |-> off,
          err |-> Err("RangeError", -1)]

\* readBytes with `this.offset += length` before the Uint8Array is made.
readBytes_AdvanceFirst(buf, off, length) ==
    IF length >= 0 /\ length <= Len(buf) - off
    THEN [ok |-> TRUE, bytes |-> SubSeq(buf, off + 1, off + length),
          pos |-> off + length, err |-> NoErr]
    ELSE [ok |-> FALSE, bytes |-> <<>>, pos |-> off + length,
          err |-> Err("RangeError", -1)]

\* readBytes: new Uint8Array(buffer, offset, length) throws a RangeError for
\* a negative length and for a range that passes the end of the buffer.
readBytes(buf, off, length) ==
    IF length >= 0 /\ length <= Len(buf) - off
    THEN [ok |-> TRUE, bytes |-> SubSeq(buf, off + 1, off + length),
          pos |-> off + length, err |-> NoErr]
    ELSE [ok |-> FALSE, bytes |-> <<>>, pos |-> off,
          err |-> Err("RangeError", -1)]

\* getTagClass
getTagClass(tagByte) ==
    CASE tagByte \div 64 = 0 -> "UNIVERSAL"
      [] tagByte \div 64 = 1 -> "APPLICATION"
      [] tagByte \div 64 = 2 -> "CONTEXT-SPECIFIC"
      [] OTHER -> "PRIVATE"

\* tagToType: the name of the tag number, whatever the class.  The default
\* branch's `Unknown (0x..)` is "Unknown"; the number stays in the node.
tagToType(tag) ==
    CASE tag = 1 -> "BOOLEAN"
      [] tag = 2 -> "INTEGER"
      [] tag = 3 -> "BIT STRING"
      [] tag = 4 -> "OCTET STRING"
      [] tag = 5 -> "NULL"
      [] tag = 6 -> "OBJECT IDENTIFIER"
      [] tag = 7 -> "ObjectDescriptor"
      [] tag = 8 -> "EXTERNAL"
      [] tag = 9 -> "REAL"
      [] tag = 10 -> "ENUMERATED"
      [] tag = 11 -> "EMBEDDED PDV"
      [] tag = 12 -> "UTF8String"
      [] tag = 13 -> "RELATIVE-OID"
      [] tag = 16 -> "SEQUENCE"
      [] tag = 17 -> "SET"
      [] tag = 18 -> "NumericString"
      [] tag = 19 -> "PrintableString"
      [] tag = 20 -> "TeletexString"
      [] tag = 21 -> "VideotexString"
      [] tag = 22 -> "IA5String"
      [] tag = 23 -> "UTCTime"
      [] tag = 24 -> "GeneralizedTime"
      [] tag = 25 -> "GraphicString"
      [] tag = 26 -> "VisibleString"
      [] tag = 27 -> "GeneralString"
      [] tag = 28 -> "UniversalString"
      [] tag = 29 -> "CHARACTER STRING"
      [] tag = 30 -> "BMPString"
      [] OTHER -> "Unknown"

\* The do-while of parseElement that reads a multi-byte tag number:
\* tagNumber = (tagNumber << 7) | (byte & 0x7F) while (byte & 0x80).
RECURSIVE readTagNumber(_, _, _)
readTagNumber(buf, off, tagNumber) ==
    LET b == readByte(buf, off)
        n == ShlOr(tagNumber, 7, b.byte % 128)
    IN  IF ~b.ok THEN [ok |-> FALSE, number |-> 0, pos |-> b.pos, err |-> b.err]
        ELSE IF b.byte >= 128 THEN readTagNumber(buf, b.pos, n)
        ELSE [ok |-> TRUE, number |-> n, pos |-> b.pos, err |-> NoErr]

\* The for loop of readLength: length = (length << 8) | readByte().
RECURSIVE readLengthBytes(_, _, _, _)
readLengthBytes(buf, off, numBytes, length) ==
    IF numBytes = 0 THEN [ok |-> TRUE, value |-> length, pos |-> off, err |-> NoErr]
    ELSE LET b == readByte(buf, off)
         IN  IF ~b.ok
             THEN [ok |-> FALSE, value |-> 0, pos |-> b.pos, err |-> b.err]
             ELSE readLengthBytes(buf, b.pos, numBytes - 1,
                                  ShlOr(length, 8, b.byte))

\* readLength without the test numBytes === 0: the indefinite form is read
\* as a length of no bytes, 0.
readLength_Indefinite(buf, off) ==
    LET f == readByte(buf, off)
        numBytes == f.byte % 128
    IN  IF ~f.ok THEN [ok |-> FALSE, value |-> 0, pos |-> f.pos, err |-> f.err]
        ELSE IF f.byte < 128
        THEN [ok |-> TRUE, value |-> f.byte, pos |-> f.pos, err |-> NoErr]
        ELSE IF numBytes > 4
        THEN [ok |-> FALSE, value |-> 0, pos |-> f.pos,
              err |-> Err("Invalid length encoding", f.pos - 1)]
        ELSE IF numBytes > Len(buf) - f.pos
        THEN [ok |-> FALSE, value |-> 0, pos |-> f.pos,
              err |-> Err("Length extends beyond buffer", f.pos)]
        ELSE readLengthBytes(buf, f.pos, numBytes, 0)

\* readLength with a short form that is read without being consumed.
readLength_Peek(buf, off) ==
    LET f == readByte(buf, off)
        numBytes == f.byte % 128
    IN  IF ~f.ok THEN [ok |-> FALSE, value |-> 0, pos |-> f.pos, err |-> f.err]
        ELSE IF f.byte < 128
        THEN [ok |-> TRUE, value |-> f.byte, pos |-> off, err |-> NoErr]
        ELSE IF numBytes = 0 \/ numBytes > 4
        THEN [ok |-> FALSE, value |-> 0, pos |-> f.pos,
              err |-> Err("Invalid length encoding", f.pos - 1)]
        ELSE IF numBytes > Len(buf) - f.pos
        THEN [ok |-> FALSE, value |-> 0, pos |-> f.pos,
              err |-> Err("Length extends beyond buffer", f.pos)]
        ELSE readLengthBytes(buf, f.pos, numBytes, 0)

\* readLength
readLength(buf, off) ==
    LET f == readByte(buf, off)
        numBytes == f.byte % 128
    IN  IF ~f.ok THEN [ok |-> FALSE, value |-> 0, pos |-> f.pos, err |-> f.err]
        ELSE IF f.byte < 128
        THEN [ok |-> TRUE, value |-> f.byte, pos |-> f.pos, err |-> NoErr]
        ELSE IF numBytes = 0 \/ numBytes > 4
        THEN [ok |-> FALSE, value |-> 0, pos |-> f.pos,
              err |-> Err("Invalid length encoding", f.pos - 1)]
        ELSE IF numBytes > Len(buf) - f.pos
        THEN [ok |-> FALSE, value |-> 0, pos |-> f.pos,
              err |-> Err("Length extends beyond buffer", f.pos)]
        ELSE readLengthBytes(buf, f.pos, numBytes, 0)

\* The bounds check that follows readLength in parseElement:
\* this.offset + lengthValue > this.buffer.byteLength.
beyondBuffer(buf, off, lengthValue) == lengthValue > Len(buf) - off

\* Date.UTC(year, month, day, hour, minute, second) for integer arguments:
\* a year 0..99 means 1900 + year, a month outside 0..11 carries into the
\* year, and day, hour, minute, second carry likewise.  The instant is
\* <<days since 1970-01-01, second of that day>>.
DaysFromCivil(year, month) ==
    LET y  == IF month < 2 THEN year - 1 ELSE year
        mp == (month + 10) % 12
    IN  365 * y + (y \div 4) - (y \div 100) + (y \div 400)
        + ((153 * mp + 2) \div 5) - 719468

DateUTC(year, month, day, hour, minute, second) ==
    LET yr   == IF year >= 0 /\ year <= 99 THEN 1900 + year ELSE year
        ym   == yr + (month \div 12)
        mn   == month % 12
        days == DaysFromCivil(ym, mn) + day - 1
        secs == hour * 3600 + minute * 60 + second
    IN  <<days + (secs \div 86400), secs % 86400>>

\* new Date(Date.UTC(...)) of a valid instant, and of NaN (Invalid Date).
DateVal(instant) == [kind |-> "date", num |-> 0, data |-> instant]
InvalidDate == [kind |-> "date", num |-> 1, data |-> <<>>]

IsDigit(c) == c >= 48 /\ c <= 57

\* parseInt of the digits str[i..i+n-1] (all digits, as the regular
\* expression has checked).
RECURSIVE DigitsValue(_, _, _)
DigitsValue(str, i, n) ==
    IF n = 0 THEN 0
    ELSE DigitsValue(str, i, n - 1) * 10 + (str[i + n - 1] - 48)

\* str.match(/^(\d{y})(\d{2})(\d{2})(\d{2})(\d{2})(\d{2})?Z$/) for y = 2, 4:
\* y + 8 or y + 10 digits, then 'Z' (90) and the end.
MatchesTime(str, y) ==
    /\ Len(str) = y + 9 \/ Len(str) = y + 11
    /\ str[Len(str)] = 90
    /\ \A i \in 1..(Len(str) - 1) : IsDigit(str[i])

\* decodeDate: a Date when the pattern of the tag matches, else the string.
decodeDate(bytes, tagNumber) ==
    LET str == decodeString(bytes)
        y   == IF tagNumber = 23 THEN 2 ELSE 4
        year == DigitsValue(str, 1, y)
        fullYear == IF tagNumber = 23
                    THEN (IF year < 50 THEN 2000 + year ELSE 1900 + year)
                    ELSE year
        second == IF Len(str) = y + 11 THEN DigitsValue(str, y + 9, 2) ELSE 0
    IN  IF (tagNumber = 23 \/ tagNumber = 24) /\ MatchesTime(str, y)
        THEN DateVal(DateUTC(fullYear, DigitsValue(str, y + 1, 2) - 1,
                             DigitsValue(str, y + 3, 2),
                             DigitsValue(str, y + 5, 2),
                             DigitsValue(str, y + 7, 2), second))
        ELSE [kind |-> "string", num |-> 0, data |-> str]

\* The "Decodages speciaux" of parseElement: the decoded value of a
\* primitive element, chosen by the tag number alone.
decodeValue(tagNumber, valueBytes) ==
    CASE tagNumber = 1 ->
            Val("bool", IF decodeBoolean(valueBytes) THEN 1 ELSE 0, <<>>)
      [] tagNumber = 2 -> Val("int", decodeInteger(valueBytes), <<>>)
      [] tagNumber = 3 -> decodeBitString(valueBytes)
      [] tagNumber = 6 -> Val("oid", 0, decodeOID(valueBytes))
      [] tagNumber = 9 -> decodeReal(valueBytes)
      [] tagNumber = 10 -> Val("int", decodeInteger(valueBytes), <<>>)
      [] tagNumber = 12 \/ tagNumber = 19 ->
            Val("string", 0, decodeString(valueBytes))
      [] tagNumber = 23 \/ tagNumber = 24 -> decodeDate(valueBytes, tagNumber)
      [] OTHER -> NoVal

\* A node (ASN1StructuredNode).  value is `children` when constructed and
\* {rawHex, base64, decoded} otherwise; the unused half is empty.  hasBase64
\* tells a present base64 "" from an absent one.
NoNode == [isNode |-> FALSE]

\* parseElement.  The result is [ok, node, pos, err]: pos is this.offset
\* when the call returns or throws.
RECURSIVE parseElement(_, _)
RECURSIVE parseChildren(_, _, _)

\* A throw of parseElement with this.offset at pos.
failed(pos, err) == [ok |-> FALSE, node |-> NoNode, pos |-> pos, err |-> err]

\* value.push(node) before the rest of the children.
pushChild(node, rest) ==
    IF ~rest.ok THEN rest
    ELSE [rest EXCEPT !.nodes = <<node>> \o rest.nodes]

\* One turn of the children loop, given the outcome r of parseElement.
childrenAfter(buf, endOffset, r) ==
    IF ~r.ok
    THEN [ok |-> FALSE, nodes |-> <<>>, pos |-> r.pos, err |-> r.err]
    ELSE pushChild(r.node, parseChildren(buf, r.pos, endOffset))

\* while (this.offset < endOffset) value.push(this.parseElement())
parseChildren(buf, off, endOffset) ==
    IF ~(off < endOffset)
    THEN [ok |-> TRUE, nodes |-> <<>>, pos |-> off, err |-> NoErr]
    ELSE childrenAfter(buf, endOffset, parseElement(buf, off))

\* The tag number after the first byte t: the low five bits, or the
\* multi-byte number.
tagNumberOf(buf, t) ==
    IF t.byte % 32 = 31 THEN readTagNumber(buf, t.pos, 0)
    ELSE [ok |-> TRUE, number |-> t.byte % 32, pos |-> t.pos, err |-> NoErr]

\* (tagByte & 0x20) !== 0
isConstructed(tagByte) == (tagByte \div 32) % 2 = 1

\* The node that parseElement returns: head is [tagByte, tagNumber,
\* lengthStart, lengthEnd, lengthValue, startOffset].
elementNode(buf, head, children, raw, fullHex) ==
    [isNode |-> TRUE,
     tag |-> [number |-> head.tagNumber,
              hex |-> bytesToHex(<<head.tagByte>>),
              class |-> getTagClass(head.tagByte),
              constructed |-> isConstructed(head.tagByte),
              type |-> tagToType(head.tagNumber)],
     length |-> [value |-> head.lengthValue,
                 encodedHex |-> bytesToHex(slice(buf, head.lengthStart,
                                                 head.lengthEnd))],
     children |-> children,
     rawHex |-> bytesToHex(raw),
     hasBase64 |-> ~isConstructed(head.tagByte) /\ head.tagNumber = 4,
     base64 |-> IF ~isConstructed(head.tagByte) /\ head.tagNumber = 4
                THEN bytesToBase64(raw) ELSE <<>>,
     decoded |-> IF isConstructed(head.tagByte) THEN NoVal
                 ELSE decodeValue(head.tagNumber, raw),
     offset |-> head.startOffset,
     fullHex |-> fullHex]

\* The constructed branch, given the outcome c of the children loop.
constructedElement(buf, head, c) ==
    IF ~c.ok THEN failed(c.pos, c.err)
    ELSE [ok |-> TRUE,
          node |-> elementNode(buf, head, c.nodes, <<>>,
                               bytesToHex(slice(buf, head.startOffset,
                                                head.lengthEnd + head.lengthValue))),
          pos |-> c.pos, err |-> NoErr]

\* The primitive branch, given the outcome v of readBytes.
primitiveElement(buf, head, v) ==
    IF ~v.ok THEN failed(v.pos, v.err)
    ELSE [ok |-> TRUE,
          node |-> elementNode(buf, head, <<>>, v.bytes,
                               bytesToHex(slice(buf, head.startOffset, v.pos))),
          pos |-> v.pos, err |-> NoErr]

\* parseElement from the bounds check on.
elementOf(buf, head) ==
    IF beyondBuffer(buf, head.lengthEnd, head.lengthValue)
    THEN failed(head.lengthEnd,
                Err("Declared length extends beyond buffer", head.startOffset))
    ELSE IF isConstructed(head.tagByte)
    THEN constructedElement(buf, head,
            parseChildren(buf, head.lengthEnd,
                          head.lengthEnd + head.lengthValue))
    ELSE primitiveElement(buf, head,
            readBytes(buf, head.lengthEnd, head.lengthValue))

\* parseElement after readLength, whose outcome is l.
afterLength(buf, startOffset, tagByte, high, l) ==
    IF ~l.ok THEN failed(l.pos, l.err)
    ELSE elementOf(buf, [tagByte |-> tagByte, tagNumber |-> high.number,
                         lengthStart |-> high.pos, lengthEnd |-> l.pos,
                         lengthValue |-> l.value, startOffset |-> startOffset])

\* parseElement after the tag number, whose outcome is high.
afterTagNumber(buf, startOffset, tagByte, high) ==
    IF ~high.ok THEN failed(high.pos, high.err)
    ELSE afterLength(buf, startOffset, tagByte, high, readLength(buf, high.pos))

\* parseElement after the first readByte, whose outcome is t.
afterTagByte(buf, startOffset, t) ==
    IF ~t.ok THEN failed(t.pos, t.err)
    ELSE afterTagNumber(buf, startOffset, t.byte, tagNumberOf(buf, t))

parseElement(buf, startOffset) ==
    afterTagByte(buf, startOffset, readByte(buf, startOffset))

(***************************************************************************)
(* ASN1Parser.parse and parseASN1                                          *)
(***************************************************************************)

\* The entry of the errors list that the catch of parse() pushes:
\* `Error parsing ASN.1 at offset ${this.offset}: ${e}`.
ParseError(cursor, err) == [cursor |-> cursor, kind |-> err.kind, at |-> err.at]

\* simplifyNode: {tag, class, offset, value}; value is the simplified
\* children, or decoded ?? base64 ?? rawHex.
RECURSIVE simplifyNode(_)
simplifyNode(node) ==
    [tag |-> node.tag.type,
     class |-> node.tag.class,
     offset |-> node.offset,
     isArray |-> node.tag.constructed,
     value |-> [i \in 1..Len(node.children) |-> simplifyNode(node.children[i])],
     from |-> IF node.tag.constructed THEN "children"
              ELSE IF node.decoded.kind # "none" THEN "decoded"
              ELSE IF node.hasBase64 THEN "base64"
              ELSE "rawHex",
     leaf |-> IF node.tag.constructed THEN NoVal
              ELSE IF node.decoded.kind # "none" THEN node.decoded
              ELSE IF node.hasBase64 THEN Val("base64", 0, node.base64)
              ELSE Val("hex", 0, node.rawHex)]

\* The try/catch of the loop body with `continue` for the `break` of the
\* catch.
tryElement_Continue(r, ns, errs, opts) ==
    IF r.ok
    THEN [offset |-> r.pos, nodes |-> Append(ns, r.node), errors |-> errs,
          stop |-> ~opts.parseAll]
    ELSE [offset |-> r.pos, nodes |-> ns,
          errors |-> Append(errs, ParseError(r.pos, r.err)),
          stop |-> FALSE]

\* The try/catch of the loop body of parse(), given the outcome r of
\* parseElement: the node is pushed and the parseAll test made, or the catch
\* pushes the error and breaks.  stop tells that the loop was left by a
\* break.
tryElement(r, ns, errs, opts) ==
    IF r.ok
    THEN [offset |-> r.pos, nodes |-> Append(ns, r.node), errors |-> errs,
          stop |-> ~opts.parseAll]
    ELSE [offset |-> r.pos, nodes |-> ns,
          errors |-> Append(errs, ParseError(r.pos, r.err)),
          stop |-> TRUE]

\* One turn of the while loop of parse().
parseIteration(buf, off, ns, errs, opts) ==
    tryElement(parseElement(buf, off), ns, errs, opts)

\* What parse() returns, or that it threw: simplifyNode(nodes[0]) reads
\* node.tag of undefined when there is no node.
\* result is the list `items` when isArray, the single node items[1] when
\* defined, and undefined otherwise.
NoResult == [threw |-> FALSE, isArray |-> FALSE, defined |-> FALSE,
             items |-> <<>>, errors |-> <<>>]

parseResult(ns, errs, opts) ==
    IF opts.simplify
    THEN IF opts.parseAll
         THEN [threw |-> FALSE, isArray |-> TRUE, defined |-> TRUE,
               items |-> [i \in 1..Len(ns) |-> simplifyNode(ns[i])],
               errors |-> errs]
         ELSE IF Len(ns) = 0
         THEN [NoResult EXCEPT !.threw = TRUE]
         ELSE [threw |-> FALSE, isArray |-> FALSE, defined |-> TRUE,
               items |-> <<simplifyNode(ns[1])>>, errors |-> errs]
    ELSE IF opts.parseAll
         THEN [threw |-> FALSE, isArray |-> TRUE, defined |-> TRUE,
               items |-> ns, errors |-> errs]
         ELSE [threw |-> FALSE, isArray |-> FALSE, defined |-> Len(ns) > 0,
               items |-> IF Len(ns) > 0 THEN <<ns[1]>> ELSE <<>>,
               errors |-> errs]

\* parse() as one call: the loop run to its end, then the result.
RECURSIVE parseLoop(_, _, _, _, _)
parseLoopNext(buf, it, opts) ==
    IF it.stop THEN parseResult(it.nodes, it.errors, opts)
    ELSE parseLoop(buf, it.offset, it.nodes, it.errors, opts)

parseLoop(buf, off, ns, errs, opts) ==
    IF ~(off < Len(buf)) THEN parseResult(ns, errs, opts)
    ELSE parseLoopNext(buf, parseIteration(buf, off, ns, errs, opts), opts)

\* parseASN1(buffer, options): a fresh parser (offset 0, no errors), parse().
\* The constructor's defaults are parseAll: true, simplify: false.
parseASN1(buf, opts) == parseLoop(buf, 0, <<>>, <<>>, opts)

(***************************************************************************)
(* oid-map.ts                                                              *)
(***************************************************************************)

OID_MAP ==
       (<<2, 5, 4, 3>> :> "commonName")
    @@ (<<2, 5, 4, 4>> :> "surname")
    @@ (<<2, 5, 4, 5>> :> "serialNumber")
    @@ (<<2, 5, 4, 6>> :> "countryName")
    @@ (<<2, 5, 4, 7>> :> "localityName")
    @@ (<<2, 5, 4, 8>> :> "stateOrProvinceName")
    @@ (<<2, 5, 4, 9>> :> "streetAddress")
    @@ (<<2, 5, 4, 10>> :> "organizationName")
    @@ (<<2, 5, 4, 11>> :> "organizationalUnitName")
    @@ (<<2, 5, 4, 12>> :> "title")
    @@ (<<2, 5, 4, 42>> :> "givenName")
    @@ (<<2, 5, 4, 97>> :> "organizationIdentifier")
    @@ (<<1, 2, 840, 113549, 1, 9, 1>> :> "emailAddress")
    @@ (<<1, 2, 840, 113549, 1, 1, 1>> :> "rsaEncryption")
    @@ (<<1, 2, 840, 113549, 1, 1, 5>> :> "sha1WithRSAEncryption")
    @@ (<<1, 2, 840, 113549, 1, 1, 11>> :> "sha256WithRSAEncryption")
    @@ (<<1, 2, 840, 113549, 1, 1, 12>> :> "sha384WithRSAEncryption")
    @@ (<<1, 2, 840, 113549, 1, 1, 13>> :> "sha512WithRSAEncryption")
    @@ (<<1, 2, 840, 10045, 2, 1>> :> "ecPublicKey")
    @@ (<<1, 2, 840, 10045, 4, 3, 2>> :> "ecdsaWithSHA256")
    @@ (<<1, 2, 840, 10045, 4, 3, 3>> :> "ecdsaWithSHA384")
    @@ (<<1, 2, 840, 10045, 4, 3, 4>> :> "ecdsaWithSHA512")
    @@ (<<1, 3, 101, 110>> :> "X25519")
    @@ (<<1, 3, 101, 111>> :> "X448")
    @@ (<<1, 3, 101, 112>> :> "Ed25519")
    @@ (<<1, 3, 101, 113>> :> "Ed448")
    @@ (<<2, 5, 29, 14>> :> "subjectKeyIdentifier")
    @@ (<<2, 5, 29, 15>> :> "keyUsage")
    @@ (<<2, 5, 29, 17>> :> "subjectAltName")
    @@ (<<2, 5, 29, 19>> :> "basicConstraints")
    @@ (<<2, 5, 29, 31>> :> "cRLDistributionPoints")
    @@ (<<2, 5, 29, 32>> :> "certificatePolicies")
    @@ (<<2, 5, 29, 35>> :> "authorityKeyIdentifier")
    @@ (<<2, 5, 29, 37>> :> "extendedKeyUsage")
    @@ (<<2, 5, 29, 30>> :> "nameConstraints")
    @@ (<<2, 5, 29, 36>> :> "policyConstraints")
    @@ (<<2, 5, 29, 54>> :> "inhibitAnyPolicy")
    @@ (<<1, 3, 6, 1, 5, 5, 7, 3, 1>> :> "serverAuth")
    @@ (<<1, 3, 6, 1, 5, 5, 7, 3, 2>> :> "clientAuth")
    @@ (<<1, 3, 6, 1, 5, 5, 7, 3, 3>> :> "codeSigning")
    @@ (<<1, 3, 6, 1, 5, 5, 7, 3, 4>> :> "emailProtection")
    @@ (<<1, 3, 6, 1, 5, 5, 7, 3, 8>> :> "timeStamping")
    @@ (<<1, 3, 6, 1, 5, 5, 7, 3, 9>> :> "OCSPSigning")
    @@ (<<1, 3, 6, 1, 5, 5, 7, 1, 1>> :> "authorityInfoAccess")
    @@ (<<1, 3, 6, 1, 5, 5, 7, 1, 3>> :> "qcStatements")
    @@ (<<1, 3, 6, 1, 5, 5, 7, 48, 1>> :> "ocsp")
    @@ (<<1, 3, 6, 1, 5, 5, 7, 48, 2>> :> "caIssuers")
    @@ (<<1, 3, 6, 1, 5, 5, 7, 48, 3>> :> "timeStampingAuthority")
    @@ (<<2, 23, 140, 1, 1>> :> "CA/Browser Forum Baseline Requirements Compliance")
    @@ (<<2, 23, 140, 1, 2, 1>> :> "DV SSL/TLS Certificate (Domain Validation)")
    @@ (<<2, 23, 140, 1, 2, 2>> :> "OV SSL/TLS Certificate (Organization Validation)")
    @@ (<<2, 23, 140, 1, 2, 3>> :> "EV SSL/TLS Certificate (Extended Validation)")
    @@ (<<2, 23, 140, 1, 3>> :> "EV S/MIME Certificate")
    @@ (<<2, 23, 140, 1, 4, 1>> :> "OV S/MIME Certificate")
    @@ (<<2, 23, 140, 1, 4, 2>> :> "DV S/MIME Certificate")
    @@ (<<2, 23, 140, 1, 5, 1, 1>> :> "EV Code Signing Certificate")
    @@ (<<2, 23, 140, 1, 5, 3, 1>> :> "EV TLS Web Server Authentication")
    @@ (<<0, 4, 0, 1862, 1, 1>> :> "id-etsi-qcs-QcCompliance")
    @@ (<<0, 4, 0, 1862, 1, 4>> :> "id-etsi-qcs-QcSSCD")
    @@ (<<0, 4, 0, 1862, 1, 5>> :> "id-etsi-qcs-QcPDS")
    @@ (<<0, 4, 0, 1862, 1, 6>> :> "id-etsi-qcs-QcType")
    @@ (<<0, 4, 0, 1862, 1, 6, 1>> :> "qct-esign")
    @@ (<<0, 4, 0, 1862, 1, 6, 2>> :> "qct-eseal")
    @@ (<<0, 4, 0, 1862, 1, 6, 3>> :> "qct-web")
    @@ (<<1, 2, 250, 1, 177, 1, 1, 1>> :> "RGS Signature (personne physique)")
    @@ (<<1, 2, 250, 1, 177, 1, 1, 2>> :> "RGS Cachet serveur")
    @@ (<<1, 2, 250, 1, 177, 1, 1, 3>> :> "RGS Authentification personne physique")
    @@ (<<1, 2, 250, 1, 177, 1, 1, 4>> :> "RGS Chiffrement personne physique")
    @@ (<<1, 2, 250, 1, 177, 1, 1, 5>> :> "RGS Authentification serveur")
    @@ (<<1, 2, 250, 1, 177, 2, 1, 1, 1>> :> "RGS Niveau faible")
    @@ (<<1, 2, 250, 1, 177, 2, 1, 1, 2>> :> "RGS Niveau substantiel")
    @@ (<<1, 2, 250, 1, 177, 2, 1, 1, 3>> :> "RGS Niveau élevé")
    @@ (<<1, 2, 250, 1, 177, 2, 4, 1, 1, 1>> :> "RGS Authentification personne physique (v2)")
    @@ (<<1, 2, 250, 1, 177, 2, 4, 1, 1, 2>> :> "RGS Authentification personne morale (v2)")
    @@ (<<1, 2, 250, 1, 177, 2, 4, 2, 1, 1>> :> "RGS Signature personne physique (v2)")
    @@ (<<1, 2, 250, 1, 177, 2, 4, 2, 1, 2>> :> "RGS Signature personne morale (v2)")
    @@ (<<1, 2, 250, 1, 177, 2, 4, 3, 1, 1>> :> "RGS Chiffrement personne physique (v2)")
    @@ (<<1, 2, 250, 1, 177, 2, 4, 3, 1, 2>> :> "RGS Chiffrement personne morale (v2)")
    @@ (<<1, 2, 840, 113583, 1, 1, 5>> :> "Adobe Authentic Documents Trust")
    @@ (<<1, 2, 840, 113583, 1, 1, 7>> :> "Adobe Document Signing")
    @@ (<<1, 2, 840, 113583, 1, 1, 9>> :> "Adobe PDF Signing")
    @@ (<<1, 2, 840, 113583, 1, 1, 8>> :> "Adobe Certified Document Services (CDS)")
    @@ (<<1, 3, 6, 1, 4, 1, 11129, 2, 4, 2>> :> "certificateTransparency")
    @@ (<<1, 3, 6, 1, 5, 5, 7, 2, 1>> :> "cpsUri")
    @@ (<<1, 3, 6, 1, 5, 5, 7, 2, 2>> :> "userNotice")

\* The text of 'Unknown', of 'Invalid Name' and of the two PEM markers.
Unknown == <<85, 110, 107, 110, 111, 119, 110>>
InvalidName == <<73, 110, 118, 97, 108, 105, 100, 32, 78, 97, 109, 101>>
BeginMarker ==
    <<45, 45, 45, 45, 45, 66, 69, 71, 73, 78, 32, 67, 69, 82, 84, 73, 70, 73,
      67, 65, 84, 69, 45, 45, 45, 45, 45>>
EndMarker ==
    <<45, 45, 45, 45, 45, 69, 78, 68, 32, 67, 69, 82, 84, 73, 70, 73, 67, 65,
      84, 69, 45, 45, 45, 45, 45>>

\* The arcs that a text of decimal numbers joined by '.' (46) writes, read
\* from character i on with the arc `arc` under way; <<-1>> when the text is
\* not of that form (a character that is no digit, an empty number, a
\* leading zero).
RECURSIVE ArcsOfText(_, _, _, _)
ArcsOfText(text, i, arc, digits) ==
    IF i > Len(text) THEN (IF digits = 0 THEN <<-1>> ELSE <<arc>>)
    ELSE IF text[i] = 46
    THEN IF digits = 0 THEN <<-1>>
         ELSE <<arc>> \o ArcsOfText(text, i + 1, 0, 0)
    ELSE IF ~IsDigit(text[i]) \/ (digits > 0 /\ arc = 0) \/ digits >= 7
    THEN <<-1>>
    ELSE ArcsOfText(text, i + 1, arc * 10 + (text[i] - 48), digits + 1)

\* The property key that a decoded value is as an index of OID_MAP: the arcs
\* of a dotted string.  A decoded OID is its arcs; a decoded text is the
\* arcs it writes, if it writes any; no other value (a number, a boolean, a
\* Date) writes a key of the table.
OIDKey(oid) ==
    IF oid.kind = "oid" THEN oid.data
    ELSE IF oid.kind = "string" THEN ArcsOfText(oid.data, 1, 0, 0)
    ELSE <<-1>>

\* getOIDLabel: OID_MAP[oid] ?? `Unknown OID (${oid})`.  known tells which;
\* text is the table's label, of is the value the template writes.
getOIDLabel(oid) ==
    IF OIDKey(oid) \in DOMAIN OID_MAP
    THEN [known |-> TRUE, text |-> OID_MAP[OIDKey(oid)], of |-> NoVal]
    ELSE [known |-> FALSE, text |-> "Unknown OID", of |-> oid]

\* oid === '2.5.29.17' and the like: the decoded value is the string that
\* the arcs write.
IsOID(oid, arcs) == OIDKey(oid) = arcs

(***************************************************************************)
(* The X.509 mapper: helpers                                               *)
(***************************************************************************)

\* array[i] of JavaScript for the list `list` (i from 0): undefined (NoNode)
\* outside the list.
element(list, i) == IF i >= 0 /\ i < Len(list) THEN list[i + 1] ELSE NoNode

\* (node.value as ASN1StructuredNode[])[i]: the child when node.value is the
\* array of children; undefined when it is the object of a primitive node.
valueAt(node, i) ==
    IF node.tag.constructed THEN element(node.children, i) ELSE NoNode

\* White space of JavaScript (\s of a regular expression, and what parseInt
\* skips).
IsWhiteSpace(c) ==
    \/ c \in {9, 10, 11, 12, 13, 32, 160, 5760, 8232, 8233, 8239, 8287,
              12288, 65279}
    \/ (c >= 8192 /\ c <= 8202)

\* parseInt(text, 10): white space is skipped, then an optional sign, then
\* the digits up to the first other character; NaN when there is no digit.
RECURSIVE SkipWhiteSpace(_, _)
SkipWhiteSpace(text, i) ==
    IF i <= Len(text) /\ IsWhiteSpace(text[i]) THEN SkipWhiteSpace(text, i + 1)
    ELSE i

RECURSIVE DigitRun(_, _)
DigitRun(text, i) ==
    IF i <= Len(text) /\ IsDigit(text[i]) THEN 1 + DigitRun(text, i + 1) ELSE 0

parseIntAt(text, s) ==
    IF DigitRun(text, s) = 0 THEN [nan |-> TRUE, value |-> 0]
    ELSE [nan |-> FALSE, value |-> DigitsValue(text, s, DigitRun(text, s))]

parseIntSigned(text, i) ==
    IF i <= Len(text) /\ text[i] = 45
    THEN [nan |-> parseIntAt(text, i + 1).nan,
          value |-> 0 - parseIntAt(text, i + 1).value]
    ELSE IF i <= Len(text) /\ text[i] = 43 THEN parseIntAt(text, i + 1)
    ELSE parseIntAt(text, i)

parseInt(text) == parseIntSigned(text, SkipWhiteSpace(text, 1))

\* parseInt(str.slice(a, b), 10) for 0 <= a <= b <= str.length.
parseIntSlice(str, a, b) == parseInt(SubSeq(str, a + 1, b))

\* new Date(Date.UTC(...)) of six parseInt results, the month less one:
\* Invalid Date when any is NaN.
DateOfFields(y, mo, d, h, mi, s) ==
    IF y.nan \/ mo.nan \/ d.nan \/ h.nan \/ mi.nan \/ s.nan THEN InvalidDate
    ELSE DateVal(DateUTC(y.value, mo.value - 1, d.value, h.value, mi.value,
                         s.value))

\* The year of the 13-character form: year < 50 ? 2000 + year : 1900 + year
\* (NaN stays NaN).
fullYear(y) ==
    [nan |-> y.nan,
     value |-> IF y.value < 50 THEN 2000 + y.value ELSE 1900 + y.value]

\* parseASN1Date
parseASN1Date(str) ==
    IF Len(str) = 13 /\ str[Len(str)] = 90
    THEN DateOfFields(fullYear(parseIntSlice(str, 0, 2)),
                      parseIntSlice(str, 2, 4), parseIntSlice(str, 4, 6),
                      parseIntSlice(str, 6, 8), parseIntSlice(str, 8, 10),
                      parseIntSlice(str, 10, 12))
    ELSE IF Len(str) >= 15 /\ str[Len(str)] = 90
    THEN DateOfFields(parseIntSlice(str, 0, 4),
                      parseIntSlice(str, 4, 6), parseIntSlice(str, 6, 8),
                      parseIntSlice(str, 8, 10), parseIntSlice(str, 10, 12),
                      parseIntSlice(str, 12, 14))
    ELSE Val("string", 0, str)

\* The date step of getDecoded and getDecodedOrForceString.
dateOrDecoded(node, decoded) ==
    IF node.tag.type \in {"UTCTime", "GeneralizedTime"} /\ decoded.kind = "string"
    THEN parseASN1Date(decoded.data)
    ELSE decoded

\* getDecoded: null (NoVal) for undefined and for a constructed node.
getDecoded(node) ==
    IF ~node.isNode THEN NoVal
    ELSE IF node.tag.constructed THEN NoVal
    ELSE dateOrDecoded(node, node.decoded)

\* The bytes that a hex string writes.
hexToBytes(hex) ==
    [i \in 1..(Len(hex) \div 2) |-> 16 * hex[2 * i - 1] + hex[2 * i]]

\* TextDecoder("ascii"): the label names windows-1252, which maps 0x80..0x9F
\* to its own characters and every other byte to the code point of its value.
Windows1252 ==
    <<8364, 129, 8218, 402, 8222, 8230, 8224, 8225, 710, 8240, 352, 8249,
      338, 141, 381, 143, 144, 8216, 8217, 8220, 8221, 8226, 8211, 8212,
      732, 8482, 353, 8250, 339, 157, 382, 376>>

\* decodeIA5String
decodeIA5String(node) ==
    IF node.tag.constructed \/ node.rawHex = <<>> THEN <<>>
    ELSE [i \in 1..(Len(node.rawHex) \div 2) |->
            IF hexToBytes(node.rawHex)[i] >= 128 /\ hexToBytes(node.rawHex)[i] < 160
            THEN Windows1252[hexToBytes(node.rawHex)[i] - 127]
            ELSE hexToBytes(node.rawHex)[i]]

\* getDecodedOrForceString
getDecodedOrForceString(node) ==
    IF ~node.isNode THEN NoVal
    ELSE IF node.tag.constructed THEN NoVal
    ELSE IF node.decoded.kind = "none" /\ node.rawHex # <<>>
    THEN dateOrDecoded(node, Val("string", 0, decodeIA5String(node)))
    ELSE dateOrDecoded(node, node.decoded)

\* getRawHex: null (NoVal) for undefined and for a constructed node.
getRawHex(node) ==
    IF ~node.isNode THEN NoVal
    ELSE IF node.tag.constructed THEN NoVal
    ELSE Val("hex", 0, node.rawHex)

\* x ?? y
orElse(x, y) == IF x.kind = "none" THEN y ELSE x

\* makeField; it reads node.offset, so an undefined node is a TypeError (see
\* the throw conditions of the callers).
makeField(value, node) ==
    [value |-> value,
     asn1 |-> [offset |-> node.offset, fullHex |-> node.fullHex,
               tag |-> node.tag]]

\* !!x.  A bit string is an object and a Date is an object: both are true.
\* A REAL is a number; it is taken as true unless it is empty (0), NaN (0x42)
\* or -0 (0x43).
truthy(x) ==
    CASE x.kind = "none" -> FALSE
      [] x.kind = "bool" -> x.num = 1
      [] x.kind = "int" -> x.num # 0
      [] x.kind \in {"string", "oid", "hex"} -> x.data # <<>>
      [] x.kind = "real" -> x.data # <<>> /\ x.data[1] \notin {66, 67}
      [] OTHER -> TRUE

(***************************************************************************)
(* Extensions                                                              *)
(***************************************************************************)

\* The seq of parseBasicConstraints: the children of node.value[0] when
\* node.value and node.value[0].value are arrays, else [].
basicConstraintsSeq(node) ==
    IF node.tag.constructed /\ Len(node.children) > 0
       /\ node.children[1].tag.constructed
    THEN node.children[1].children
    ELSE <<>>

\* parseBasicConstraints, given seq: {cA?, pathLenConstraint?}.
basicConstraintsOf(seq) ==
    [hasCA |-> Len(seq) > 0,
     cA |-> Len(seq) > 0 /\ truthy(getDecoded(element(seq, 0))),
     hasPathLenConstraint |-> Len(seq) > 1,
     pathLenConstraint |-> getDecoded(element(seq, 1))]

parseBasicConstraints(node) ==
    Val("basicConstraints", 0, basicConstraintsOf(basicConstraintsSeq(node)))

\* The nodes of one extension: extFields[0], extFields[1] when there are
\* three fields (else null), extFields[extFields.length - 1].
extnIDNode(ext) == valueAt(ext, 0)
\* The same as criticalNode but the test is extFields.length >= 2.
criticalNode_Second(ext) ==
    IF ext.tag.constructed /\ Len(ext.children) >= 2 THEN ext.children[2]
    ELSE NoNode
criticalNode(ext) ==
    IF ext.tag.constructed /\ Len(ext.children) = 3 THEN ext.children[2]
    ELSE NoNode
valueNode(ext) ==
    IF ext.tag.constructed THEN element(ext.children, Len(ext.children) - 1)
    ELSE NoNode

\* getDecoded<string>(node) ?? 'Unknown'
oidOf(node) == orElse(getDecoded(node), Val("string", 0, Unknown))

\* {oid, label: getOIDLabel(oid)}
oidAndLabel(oid) == [oid |-> oid, label |-> getOIDLabel(oid)]

\* The empty object {} and the empty string ''.
EmptyObject == Val("object", 0, <<>>)
EmptyString == Val("string", 0, <<>>)

(***************************************************************************)
(* parseKeyUsage.  Texts of binary digits are sequences of the characters  *)
(* '0' (48) and '1' (49).                                                  *)
(***************************************************************************)

\* The number of significant bits of a Number (an IEEE 754 double).
DoublePrecision == 53

\* The four binary digits of a hex digit, and those of a hex string.
nibbleBits(n) == <<48 + ((n \div 8) % 2), 48 + ((n \div 4) % 2),
                   48 + ((n \div 2) % 2), 48 + (n % 2)>>
hexBits(hex) ==
    [i \in 1..(4 * Len(hex)) |-> nibbleBits(hex[((i - 1) \div 4) + 1])[((i - 1) % 4) + 1]]

\* The digits without the leading zeros.
RECURSIVE significant(_)
significant(bits) ==
    IF bits = <<>> THEN <<>>
    ELSE IF bits[1] = 48 THEN significant(Tail(bits))
    ELSE bits

\* The digits of the number one greater.
RECURSIVE plusOne(_)
plusOne(bits) ==
    IF bits = <<>> THEN <<49>>
    ELSE IF bits[Len(bits)] = 48
    THEN SubSeq(bits, 1, Len(bits) - 1) \o <<49>>
    ELSE plusOne(SubSeq(bits, 1, Len(bits) - 1)) \o <<48>>

zeros(n) == [i \in 1..n |-> 48]

\* Whether the digits cut off behind the mantissa round it up (to nearest,
\* ties to even).
roundsUp(mantissa, cut) ==
    /\ cut[1] = 49
    /\ \/ \E i \in 2..Len(cut) : cut[i] = 49
       \/ mantissa[Len(mantissa)] = 49

\* parseInt(hex, 16).toString(2) for a non-empty hex string: the digits of
\* the nearest double, "0" for zero.
roundToDouble(sig) ==
    IF Len(sig) <= DoublePrecision THEN sig
    ELSE (IF roundsUp(SubSeq(sig, 1, DoublePrecision),
                      SubSeq(sig, DoublePrecision + 1, Len(sig)))
          THEN plusOne(SubSeq(sig, 1, DoublePrecision))
          ELSE SubSeq(sig, 1, DoublePrecision))
         \o zeros(Len(sig) - DoublePrecision)

toStringBinary(sig) == IF sig = <<>> THEN <<48>> ELSE roundToDouble(sig)

\* text.padStart(n, '0')
padStart(text, n) ==
    IF Len(text) >= n THEN text ELSE zeros(n - Len(text)) \o text

\* parseInt(bitsHex, 16).toString(2).padStart(bitsHex.length * 4, '0'); the
\* text "NaN" for the empty bitsHex.
bitsBinary(bitsHex) ==
    IF bitsHex = <<>> THEN <<78, 97, 78>>
    ELSE padStart(toStringBinary(significant(hexBits(bitsHex))),
                  4 * Len(bitsHex))

\* parseInt(rawHex.slice(4, 6), 16): NaN when the slice is empty.
unusedBitsOf(rawHex) ==
    IF Len(rawHex) >= 6 THEN [nan |-> FALSE, value |-> 16 * rawHex[5] + rawHex[6]]
    ELSE [nan |-> TRUE, value |-> 0]

\* text.substring(0, text.length - unusedBits): NaN and a negative end are 0.
meaningfulBits(text, unusedBits) ==
    IF unusedBits.nan \/ unusedBits.value >= Len(text) THEN <<>>
    ELSE SubSeq(text, 1, Len(text) - unusedBits.value)

\* The nine labels of KeyUsageLabels, by bit.
KeyUsageLabels ==
    <<"digitalSignature", "nonRepudiation", "keyEncipherment",
      "dataEncipherment", "keyAgreement", "keyCertSign", "cRLSign",
      "encipherOnly", "decipherOnly">>

\* usage[label] = meaningfulBits[bit] === '1' for every label.
usageOf(bits) ==
    [label \in {KeyUsageLabels[i] : i \in 1..9} |->
        \E i \in 1..9 : /\ KeyUsageLabels[i] = label
                        /\ i <= Len(bits)
                        /\ bits[i] = 49]

\* parseKeyUsage, given rawHex.
keyUsageOf(rawHex) ==
    IF ~(Len(rawHex) >= 2 /\ rawHex[1] = 0 /\ rawHex[2] = 3) THEN EmptyObject
    ELSE Val("keyUsage", 0,
             usageOf(meaningfulBits(bitsBinary(SubSeq(rawHex, 7, Len(rawHex))),
                                    unusedBitsOf(rawHex))))

parseKeyUsage(node) ==
    keyUsageOf(orElse(getRawHex(node), Val("hex", 0, <<>>)).data)

(***************************************************************************)
(* Re-decoding of an extension value                                       *)
(***************************************************************************)

\* {parseAll: true}: the constructor adds simplify: false.
ParseAll == [parseAll |-> TRUE, simplify |-> FALSE]

\* node.value[i] of a node that may be undefined (node?.value?.[i]).
childAt(node, i) == IF node.isNode THEN valueAt(node, i) ELSE NoNode

\* list.find(n => n.tag.type === type), from the i-th entry on: undefined
\* (NoNode) when there is none.
RECURSIVE findByType(_, _, _)
findByType(list, type, i) ==
    IF i > Len(list) THEN NoNode
    ELSE IF list[i].tag.type = type THEN list[i]
    ELSE findByType(list, type, i + 1)

\* parseASN1(hexToArrayBuffer(hex), {parseAll: true}).result: an array.
reparse(hex) == parseASN1(hexToBytes(hex), ParseAll).items

\* The first SEQUENCE of a re-decoded value.
topSeq(rawHex) == findByType(reparse(rawHex), "SEQUENCE", 1)

\* Array.isArray(node?.value) ? node.value : undefined, as [isArray, list].
arrayOf(node) ==
    IF node.isNode /\ node.tag.constructed
    THEN [isArray |-> TRUE, list |-> node.children]
    ELSE [isArray |-> FALSE, list |-> <<>>]

\* The children of the first SEQUENCE of the re-decoded rawHex of node, for
\* the parsers that start with: no rawHex, no SEQUENCE or no array -> return
\* the empty result.
topSeqValue(node) ==
    IF orElse(getRawHex(node), Val("hex", 0, <<>>)).data = <<>>
    THEN [isArray |-> FALSE, list |-> <<>>]
    ELSE arrayOf(topSeq(getRawHex(node).data))

\* parseASN1FromRawHex
parseASN1FromRawHex(node) == topSeqValue(node).list

\* hexToAsciiSafe of a string of hex digits of even length:
\* String.fromCharCode of every byte.
hexToAsciiSafe(hex) == Val("string", 0, hexToBytes(hex))

\* decodeContextString; a TypeError when node is undefined (node.value).
decodeContextString(node) ==
    IF ~node.tag.constructed /\ node.rawHex # <<>>
    THEN hexToAsciiSafe(node.rawHex)
    ELSE EmptyString

(***************************************************************************)
(* GeneralName                                                             *)
(***************************************************************************)

\* decodeIPAddress: four bytes give their numbers to be joined by '.',
\* sixteen bytes their hex digits in groups of four to be joined by ':'.
decodeIPAddress(node) ==
    IF ~node.tag.constructed /\ Len(node.rawHex) = 8
    THEN Val("joined by .", 0, hexToBytes(node.rawHex))
    ELSE IF ~node.tag.constructed /\ Len(node.rawHex) = 32
    THEN Val("joined by :", 0,
             [i \in 1..8 |-> SubSeq(node.rawHex, 4 * i - 3, 4 * i)])
    ELSE EmptyString

\* `${getDecoded(typeNode) ?? 'Unknown'}=${getDecoded(valueNode) ?? 'Unknown'}`
\* for attr = rdn.value?.[0]: the two values the template writes.
directoryNamePart(attr) ==
    [type |-> orElse(getDecoded(childAt(attr, 0)), Val("string", 0, Unknown)),
     value |-> orElse(getDecoded(childAt(attr, 1)), Val("string", 0, Unknown))]

\* parseDirectoryName, given parsed.result (an array): the parts to be
\* joined by ', '.
directoryNameOf(rdns) ==
    Val("joined by ,", 0,
        [k \in 1..Len(rdns) |-> directoryNamePart(childAt(rdns[k], 0))])

parseDirectoryName(node) == directoryNameOf(reparse(node.fullHex))

\* parseOtherName: JSON.stringify of parsed.result, a text that writes every
\* field of the nodes.
parseOtherName(node) == Val("json", 0, reparse(node.fullHex))

\* parseRegisteredID calls getDecoded(parsed.result) on the array that
\* {parseAll: true} returns: the array has no value, and reading
\* node.value.decoded is a TypeError.
parseRegisteredIDThrows(node) == TRUE

\* decodeGeneralName
decodeGeneralNameThrows(name) ==
    name.tag.number = 8 /\ parseRegisteredIDThrows(name)

decodeGeneralName(name) ==
    CASE name.tag.number = 1 ->
            [type |-> "email", number |-> 1, value |-> decodeContextString(name)]
      [] name.tag.number = 2 ->
            [type |-> "DNS", number |-> 2, value |-> decodeContextString(name)]
      [] name.tag.number = 6 ->
            [type |-> "URI", number |-> 6, value |-> decodeContextString(name)]
      [] name.tag.number = 7 ->
            [type |-> "IP", number |-> 7, value |-> decodeIPAddress(name)]
      [] name.tag.number = 4 ->
            [type |-> "directoryName", number |-> 4,
             value |-> parseDirectoryName(name)]
      [] name.tag.number = 8 ->
            [type |-> "registeredID", number |-> 8, value |-> NoVal]
      [] name.tag.number = 0 ->
            [type |-> "otherName", number |-> 0, value |-> parseOtherName(name)]
      [] OTHER ->
            [type |-> "Unknown", number |-> name.tag.number,
             value |-> decodeContextString(name)]

\* list.filter(n => n.tag.class === "CONTEXT-SPECIFIC")
contextSpecific(list) ==
    SelectSeq(list, LAMBDA n : n.tag.class = "CONTEXT-SPECIFIC")

\* parseSubjectAltName, given names.
subjectAltNameThrows(names) ==
    \E k \in 1..Len(names) : decodeGeneralNameThrows(names[k])

subjectAltNameOf(names) ==
    Val("generalNames", 0, [k \in 1..Len(names) |-> decodeGeneralName(names[k])])

parseSubjectAltNameThrows(node) ==
    subjectAltNameThrows(contextSpecific(parseASN1FromRawHex(node)))

parseSubjectAltName(node) ==
    subjectAltNameOf(contextSpecific(parseASN1FromRawHex(node)))

(***************************************************************************)
(* authorityInfoAccess, cRLDistributionPoints                              *)
(***************************************************************************)

\* The callback of entries.map in parseAuthorityInfoAccess.  It throws a
\* TypeError when desc.value is no array (the destructuring of an object
\* that is not iterable) and when it has no second entry
\* (decodeContextString reads locationNode.value).
accessDescriptionThrows(desc) ==
    ~desc.tag.constructed \/ Len(desc.children) < 2

accessDescription(desc) ==
    [method |-> oidAndLabel(oidOf(desc.children[1])),
     location |-> decodeContextString(desc.children[2])]

parseAuthorityInfoAccessThrows(node) ==
    \E k \in 1..Len(parseASN1FromRawHex(node)) :
        accessDescriptionThrows(parseASN1FromRawHex(node)[k])

authorityInfoAccessOf(entries) ==
    Val("accessDescriptions", 0,
        [k \in 1..Len(entries) |-> accessDescription(entries[k])])

parseAuthorityInfoAccess(node) ==
    authorityInfoAccessOf(parseASN1FromRawHex(node))

\* entry.value.find(f => f.tag.class === "CONTEXT-SPECIFIC" &&
\* f.tag.number === 0)
RECURSIVE findDistributionPoint(_, _)
findDistributionPoint(list, i) ==
    IF i > Len(list) THEN NoNode
    ELSE IF list[i].tag.class = "CONTEXT-SPECIFIC" /\ list[i].tag.number = 0
    THEN list[i]
    ELSE findDistributionPoint(list, i + 1)

\* The names of dpField.value[0].value when both are arrays, else none.
distributionPointNames(dpField) ==
    arrayOf(childAt(dpField, 0)).list

\* The URLs that one entry pushes: decodeContextString of every
\* CONTEXT-SPECIFIC [6] name, the empty ones left out.
RECURSIVE urlsOf(_, _)
urlsOf(names, i) ==
    IF i > Len(names) THEN <<>>
    ELSE IF /\ names[i].tag.class = "CONTEXT-SPECIFIC"
            /\ names[i].tag.number = 6
            /\ decodeContextString(names[i]).data # <<>>
    THEN <<decodeContextString(names[i])>> \o urlsOf(names, i + 1)
    ELSE urlsOf(names, i + 1)

\* The loop of parseCRLDistributionPoints from the i-th entry on.  An entry
\* whose value is no array is a TypeError (entry.value.find is not a
\* function).
RECURSIVE distributionPointsFrom(_, _)
distributionPointsFrom(entries, i) ==
    IF i > Len(entries) THEN <<>>
    ELSE urlsOf(distributionPointNames(
                    findDistributionPoint(entries[i].children, 1)), 1)
         \o distributionPointsFrom(entries, i + 1)

parseCRLDistributionPointsThrows(node) ==
    \E k \in 1..Len(parseASN1FromRawHex(node)) :
        ~parseASN1FromRawHex(node)[k].tag.constructed

parseCRLDistributionPoints(node) ==
    Val("distributionPoints", 0,
        distributionPointsFrom(parseASN1FromRawHex(node), 1))

(***************************************************************************)
(* extendedKeyUsage, authorityKeyIdentifier                                *)
(***************************************************************************)

extendedKeyUsageOf(usages) ==
    Val("usages", 0, [k \in 1..Len(usages) |-> oidAndLabel(oidOf(usages[k]))])

parseExtendedKeyUsage(node) == extendedKeyUsageOf(topSeqValue(node).list)

\* field.value.rawHex.toUpperCase() when there is a non-empty rawHex.
upperCaseHex(field) ==
    IF ~field.tag.constructed /\ field.rawHex # <<>>
    THEN [present |-> TRUE, value |-> Val("HEX", 0, field.rawHex)]
    ELSE [present |-> FALSE, value |-> NoVal]

\* typeof issuerDecoded === 'string' ? issuerDecoded : ''
stringOrEmpty(decoded) ==
    IF decoded.kind = "string" THEN decoded ELSE EmptyString

\* The loop of parseAuthorityKeyIdentifier over fields[i..], found being
\* the result so far: a later field of the same number overwrites.
RECURSIVE authorityKeyIdentifierFrom(_, _, _)
authorityKeyIdentifierFrom(fields, i, found) ==
    IF i > Len(fields) THEN found
    ELSE IF fields[i].tag.class # "CONTEXT-SPECIFIC"
    THEN authorityKeyIdentifierFrom(fields, i + 1, found)
    ELSE IF fields[i].tag.number = 0 /\ upperCaseHex(fields[i]).present
    THEN authorityKeyIdentifierFrom(fields, i + 1,
            [found EXCEPT !.keyIdentifier = upperCaseHex(fields[i])])
    ELSE IF fields[i].tag.number = 1
    THEN authorityKeyIdentifierFrom(fields, i + 1,
            [found EXCEPT !.authorityCertIssuer =
                [present |-> TRUE,
                 value |-> stringOrEmpty(getDecodedOrForceString(fields[i]))]])
    ELSE IF fields[i].tag.number = 2 /\ upperCaseHex(fields[i]).present
    THEN authorityKeyIdentifierFrom(fields, i + 1,
            [found EXCEPT !.authorityCertSerialNumber = upperCaseHex(fields[i])])
    ELSE authorityKeyIdentifierFrom(fields, i + 1, found)

NoKeyIdentifier ==
    [keyIdentifier |-> [present |-> FALSE, value |-> NoVal],
     authorityCertIssuer |-> [present |-> FALSE, value |-> NoVal],
     authorityCertSerialNumber |-> [present |-> FALSE, value |-> NoVal]]

parseAuthorityKeyIdentifier(node) ==
    Val("authorityKeyIdentifier", 0,
        authorityKeyIdentifierFrom(topSeqValue(node).list, 1, NoKeyIdentifier))

(***************************************************************************)
(* certificatePolicies                                                     *)
(***************************************************************************)

\* The callback of qualifiers.map, for q whose value is an array.  With no
\* second entry qualifierText is '' and the test that follows reads
\* qualifierValueNode.value of undefined: a TypeError.
qualifierThrows(q) == q.tag.constructed /\ Len(q.children) < 2

\* qualifierText: the decoded value, or hexToAsciiSafe of the rawHex when
\* that value is falsy.
qualifierTextOf(qualifierValueNode) ==
    IF /\ ~truthy(orElse(getDecoded(qualifierValueNode), EmptyString))
       /\ ~qualifierValueNode.tag.constructed
       /\ qualifierValueNode.rawHex # <<>>
    THEN hexToAsciiSafe(qualifierValueNode.rawHex)
    ELSE orElse(getDecoded(qualifierValueNode), EmptyString)

qualifier(q) ==
    [policyQualifierId |-> oidAndLabel(oidOf(q.children[1])),
     qualifier |-> qualifierTextOf(q.children[2])]

\* qualifiers.map(...).filter(Boolean): a q whose value is no array gives
\* null and is left out.
qualifiersOf(qualifiers) ==
    [k \in 1..Len(SelectSeq(qualifiers, LAMBDA q : q.tag.constructed)) |->
        qualifier(SelectSeq(qualifiers, LAMBDA q : q.tag.constructed)[k])]

\* policyInfo of a policyNode whose value is the array fields.
policyInfo(fields) ==
    [policyId |-> oidAndLabel(oidOf(element(fields, 0))),
     hasQualifiers |-> Len(fields) > 1 /\ fields[2].tag.constructed,
     qualifiers |-> IF Len(fields) > 1 /\ fields[2].tag.constructed
                    THEN qualifiersOf(fields[2].children)
                    ELSE <<>>]

policyThrows(policyNode) ==
    /\ policyNode.tag.constructed
    /\ Len(policyNode.children) > 1
    /\ policyNode.children[2].tag.constructed
    /\ \E k \in 1..Len(policyNode.children[2].children) :
          qualifierThrows(policyNode.children[2].children[k])

\* The loop over policies: a policyNode whose value is no array is skipped.
policiesOf(policies) ==
    [k \in 1..Len(SelectSeq(policies, LAMBDA p : p.tag.constructed)) |->
        policyInfo(SelectSeq(policies, LAMBDA p : p.tag.constructed)[k].children)]

parseCertificatePoliciesThrows(node) ==
    \E k \in 1..Len(topSeqValue(node).list) :
        policyThrows(topSeqValue(node).list[k])

parseCertificatePolicies(node) ==
    Val("policies", 0, policiesOf(topSeqValue(node).list))

(***************************************************************************)
(* qcStatements                                                            *)
(***************************************************************************)

\* parseAnyASN1: the list of its children's values for an array of type
\* SEQUENCE, the (forced) decoded value for a primitive node, null for any
\* other array.
RECURSIVE parseAnyASN1(_)
parseAnyASN1(node) ==
    IF node.tag.type = "SEQUENCE" /\ node.tag.constructed
    THEN Val("list", 0, [k \in 1..Len(node.children) |->
                            parseAnyASN1(node.children[k])])
    ELSE IF ~node.tag.constructed THEN getDecodedOrForceString(node)
    ELSE NoVal

\* parseQcType: {oid, label} of every entry whose decoded value is truthy.
qcTypeEntries(entries) ==
    SelectSeq(entries, LAMBDA e : truthy(orElse(getDecoded(e), EmptyString)))

parseQcType(node) ==
    IF ~node.tag.constructed THEN Val("oids", 0, <<>>)
    ELSE Val("oids", 0,
             [k \in 1..Len(qcTypeEntries(node.children)) |->
                 oidAndLabel(getDecoded(qcTypeEntries(node.children)[k]))])

\* One entry of parseQcPDS: {url, language} of the first IA5String and the
\* first PrintableString of the entry.
qcPDSEntry(elements) ==
    [url |-> getDecodedOrForceString(findByType(elements, "IA5String", 1)),
     language |-> getDecoded(findByType(elements, "PrintableString", 1))]

\* The entries that parseQcPDS pushes: value an array, url truthy.
qcPDSPushed(entries) ==
    SelectSeq(entries,
              LAMBDA e : e.tag.constructed /\ truthy(qcPDSEntry(e.children).url))

parseQcPDS(node) ==
    IF ~node.tag.constructed THEN Val("list", 0, <<>>)
    ELSE Val("list", 0,
             [k \in 1..Len(qcPDSPushed(node.children)) |->
                 qcPDSEntry(qcPDSPushed(node.children)[k].children)])

\* statementInfo of parseSingleQCStatement for fields[1].
statementInfoOf(statementId, infoNode) ==
    IF IsOID(statementId, <<0, 4, 0, 1862, 1, 5>>) THEN parseQcPDS(infoNode)
    ELSE IF IsOID(statementId, <<0, 4, 0, 1862, 1, 6>>) THEN parseQcType(infoNode)
    ELSE parseAnyASN1(infoNode)

\* parseSingleQCStatement.  For a primitive node `fields` is the object of
\* its value: fields[0] is undefined and fields.length is too.
parseSingleQCStatement(node) ==
    IF node.tag.constructed /\ Len(node.children) = 0
    THEN [statementId |-> [oid |-> Val("string", 0, Unknown),
                           label |-> [known |-> TRUE, text |-> "Unknown",
                                      of |-> NoVal]],
          statementInfo |-> NoVal]
    ELSE [statementId |-> oidAndLabel(oidOf(valueAt(node, 0))),
          statementInfo |-> IF node.tag.constructed /\ Len(node.children) > 1
                            THEN statementInfoOf(oidOf(node.children[1]),
                                                 node.children[2])
                            ELSE NoVal]

qcStatementsOf(statements) ==
    Val("qcStatements", 0,
        [k \in 1..Len(statements) |-> parseSingleQCStatement(statements[k])])

parseQCStatements(extensionNode) ==
    qcStatementsOf(topSeqValue(extensionNode).list)

(***************************************************************************)
(* parseKnownExtension                                                     *)
(***************************************************************************)

parseKnownExtension(oid, extnValue) ==
    IF IsOID(oid, <<2, 5, 29, 17>>) THEN parseSubjectAltName(extnValue)
    ELSE IF IsOID(oid, <<2, 5, 29, 15>>) THEN parseKeyUsage(extnValue)
    ELSE IF IsOID(oid, <<2, 5, 29, 19>>) THEN parseBasicConstraints(extnValue)
    ELSE IF IsOID(oid, <<2, 5, 29, 31>>) THEN parseCRLDistributionPoints(extnValue)
    ELSE IF IsOID(oid, <<2, 5, 29, 32>>) THEN parseCertificatePolicies(extnValue)
    ELSE IF IsOID(oid, <<2, 5, 29, 35>>) THEN parseAuthorityKeyIdentifier(extnValue)
    ELSE IF IsOID(oid, <<2, 5, 29, 37>>) THEN parseExtendedKeyUsage(extnValue)
    ELSE IF IsOID(oid, <<1, 3, 6, 1, 5, 5, 7, 1, 1>>)
    THEN parseAuthorityInfoAccess(extnValue)
    ELSE IF IsOID(oid, <<1, 3, 6, 1, 5, 5, 7, 1, 3>>)
    THEN parseQCStatements(extnValue)
    ELSE orElse(getRawHex(extnValue), Val("hex", 0, <<>>))

\* Whether parseKnownExtension throws: the TypeErrors of the four parsers
\* that read a property of a node without testing it.
parseKnownExtensionThrows(oid, extnValue) ==
    IF IsOID(oid, <<2, 5, 29, 17>>) THEN parseSubjectAltNameThrows(extnValue)
    ELSE IF IsOID(oid, <<2, 5, 29, 31>>)
    THEN parseCRLDistributionPointsThrows(extnValue)
    ELSE IF IsOID(oid, <<2, 5, 29, 32>>)
    THEN parseCertificatePoliciesThrows(extnValue)
    ELSE IF IsOID(oid, <<1, 3, 6, 1, 5, 5, 7, 1, 1>>)
    THEN parseAuthorityInfoAccessThrows(extnValue)
    ELSE FALSE

\* The callback of extnList.map: it throws a TypeError in makeField when
\* extFields[0] is undefined (an extension without a child), and when
\* parseKnownExtension does.
extensionThrows(ext) ==
    IF ~extnIDNode(ext).isNode THEN TRUE
    ELSE parseKnownExtensionThrows(oidOf(extnIDNode(ext)), valueNode(ext))

extension(ext) ==
    [extnID |-> makeField(oidAndLabel(oidOf(extnIDNode(ext))), extnIDNode(ext)),
     critical |-> makeField(criticalNode(ext).isNode
                                /\ truthy(getDecoded(criticalNode(ext))),
                            IF criticalNode(ext).isNode THEN criticalNode(ext)
                            ELSE extnIDNode(ext)),
     value |-> makeField(parseKnownExtension(oidOf(extnIDNode(ext)),
                                             valueNode(ext)),
                         valueNode(ext))]

\* The test of the optional-field loop: a CONTEXT-SPECIFIC [3] whose value
\* is a non-empty array that starts with a constructed element of type
\* SEQUENCE.
holdsExtensions(optionalField) ==
    /\ optionalField.tag.class = "CONTEXT-SPECIFIC"
    /\ optionalField.tag.number = 3
    /\ optionalField.tag.constructed
    /\ Len(optionalField.children) > 0
    /\ optionalField.children[1].tag.type = "SEQUENCE"
    /\ optionalField.children[1].tag.constructed

extnList(optionalField) == optionalField.children[1].children

\* `extensions` after the optional-field loop has run over tbs[idx..]: the
\* list of the last field that holds extensions, undefined when none does.
RECURSIVE extensionsFrom(_, _, _)
extensionsFrom(tbs, idx, extensions) ==
    IF ~(idx < Len(tbs)) THEN extensions
    ELSE IF holdsExtensions(tbs[idx + 1])
    THEN extensionsFrom(tbs, idx + 1,
            [present |-> TRUE,
             list |-> [k \in 1..Len(extnList(tbs[idx + 1])) |->
                          extension(extnList(tbs[idx + 1])[k])]])
    ELSE extensionsFrom(tbs, idx + 1, extensions)

\* Whether the optional-field loop throws.
extensionsThrow(tbs, idx) ==
    \E i \in idx..(Len(tbs) - 1) :
        /\ holdsExtensions(tbs[i + 1])
        /\ \E k \in 1..Len(extnList(tbs[i + 1])) :
              extensionThrows(extnList(tbs[i + 1])[k])

(***************************************************************************)
(* extractOIDField, extractName                                            *)
(***************************************************************************)

\* extractOIDField throws a TypeError when node is undefined (node.value) and
\* when node.value[0] is (makeField).
extractOIDFieldThrows(node) ==
    IF ~node.isNode THEN TRUE ELSE ~valueAt(node, 0).isNode

extractOIDField(node) ==
    makeField(oidAndLabel(oidOf(valueAt(node, 0))), valueAt(node, 0))

\* The loop body of extractName throws a TypeError when rdn.value[0] is
\* undefined, and when its value is no array (the destructuring of an object
\* that is not iterable).
rdnThrows(rdn) ==
    IF ~valueAt(rdn, 0).isNode THEN TRUE
    ELSE ~valueAt(rdn, 0).tag.constructed

extractNameThrows(seqNode) ==
    IF ~seqNode.isNode THEN TRUE
    ELSE /\ seqNode.tag.constructed
         /\ \E k \in 1..Len(seqNode.children) : rdnThrows(seqNode.children[k])

\* One entry of fields: {oid, label, value} of the first attribute of rdn.
nameField(attrSeq) ==
    [oid |-> oidOf(valueAt(attrSeq, 0)),
     label |-> getOIDLabel(oidOf(valueAt(attrSeq, 0))),
     value |-> orElse(getDecodedOrForceString(valueAt(attrSeq, 1)),
                      Val("string", 0, Unknown))]

\* The same as nameFields but with the last attribute of every rdn.
nameFields_LastAttribute(seqNode) ==
    [k \in 1..Len(seqNode.children) |->
        nameField(valueAt(seqNode.children[k],
                          Len(seqNode.children[k].children) - 1))]
nameFields(seqNode) ==
    [k \in 1..Len(seqNode.children) |->
        nameField(valueAt(seqNode.children[k], 0))]

\* `${label}=${value}` of every field, to be joined by ', ': the list of the
\* parts, each the pair the template writes.
nameParts(fields) ==
    [k \in 1..Len(fields) |-> [label |-> fields[k].label,
                               value |-> fields[k].value]]

\* extractName
extractName(seqNode) ==
    IF ~seqNode.tag.constructed
    THEN [formatted |-> makeField(Val("string", 0, InvalidName), seqNode),
          fields |-> makeField(<<>>, seqNode)]
    ELSE [formatted |-> makeField(Val("parts", 0, nameParts(nameFields(seqNode))),
                                  seqNode),
          fields |-> makeField(nameFields(seqNode), seqNode)]

(***************************************************************************)
(* parseX509Certificate                                                    *)
(***************************************************************************)

\* tbs[0] is the CONTEXT-SPECIFIC [0] of the version.
isVersionTag(node) ==
    node.tag.class = "CONTEXT-SPECIFIC" /\ node.tag.number = 0

\* (getDecoded<number>(versionInner) ?? 0) + 1: a number for a number and
\* for a boolean (true is 1); for a string, and for an object through its
\* string, the concatenation with "1".
versionOf(decoded) ==
    CASE decoded.kind = "none" -> Val("int", 1, <<>>)
      [] decoded.kind = "int" -> Val("int", decoded.num + 1, <<>>)
      [] decoded.kind = "bool" -> Val("int", decoded.num + 1, <<>>)
      [] OTHER -> Val("concat", 1, <<decoded>>)

\* idx after the version step.
idxAfterVersion(tbs) == IF isVersionTag(tbs[1]) THEN 1 ELSE 0

\* version after the version step.
versionFrom(tbs) ==
    IF isVersionTag(tbs[1]) THEN versionOf(getDecoded(valueAt(tbs[1], 0)))
    ELSE Val("int", 1, <<>>)

\* getRawHex(node) ?? ''
rawHexOrEmpty(node) == orElse(getRawHex(node), Val("hex", 0, <<>>))

\* getDecoded(node) ?? ''
decodedOrEmpty(node) == orElse(getDecoded(node), Val("string", 0, <<>>))

\* The TypeErrors of parseX509Certificate past its first check, for the
\* children tbs of tbsCertificate (not empty) and idx after the version
\* step: serialNumber, signature, issuer, validity, subject and
\* subjectPublicKeyInfo are tbs[idx..idx+5].
fieldsThrow(asn1, tbs, idx) ==
    \/ extensionsThrow(tbs, idx + 6)
    \/ ~element(tbs, idx + 3).isNode
    \/ ~element(tbs, idx + 5).isNode
    \/ ~element(tbs, idx).isNode
    \/ extractOIDFieldThrows(element(tbs, idx + 1))
    \/ extractNameThrows(element(tbs, idx + 2))
    \/ ~valueAt(element(tbs, idx + 3), 0).isNode
    \/ ~valueAt(element(tbs, idx + 3), 1).isNode
    \/ extractNameThrows(element(tbs, idx + 4))
    \/ extractOIDFieldThrows(valueAt(element(tbs, idx + 5), 0))
    \/ ~valueAt(element(tbs, idx + 5), 1).isNode
    \/ extractOIDFieldThrows(valueAt(asn1, 1))
    \/ ~valueAt(asn1, 2).isNode

\* Whether parseX509Certificate throws a TypeError: tbsCertificate is
\* undefined (tbsCertificate.value), tbs[0] is (tbs[idx].tag), or a later
\* step throws.
certificateThrows(asn1) ==
    IF ~valueAt(asn1, 0).isNode THEN TRUE
    ELSE IF ~valueAt(valueAt(asn1, 0), 0).isNode THEN TRUE
    ELSE fieldsThrow(asn1, valueAt(asn1, 0).children,
                     idxAfterVersion(valueAt(asn1, 0).children))

\* The object that parseX509Certificate returns.
certificate(asn1, tbs, idx) ==
    [version |-> makeField(versionFrom(tbs), valueAt(asn1, 0)),
     serialNumber |-> makeField(rawHexOrEmpty(tbs[idx + 1]), tbs[idx + 1]),
     signatureAlgorithm |-> extractOIDField(tbs[idx + 2]),
     issuer |-> extractName(tbs[idx + 3]),
     validity |->
        [notBefore |-> makeField(decodedOrEmpty(valueAt(tbs[idx + 4], 0)),
                                 valueAt(tbs[idx + 4], 0)),
         notAfter |-> makeField(decodedOrEmpty(valueAt(tbs[idx + 4], 1)),
                                valueAt(tbs[idx + 4], 1))],
     subject |-> extractName(tbs[idx + 5]),
     subjectPublicKeyInfo |->
        [algorithm |-> extractOIDField(valueAt(tbs[idx + 6], 0)),
         publicKey |-> makeField(rawHexOrEmpty(valueAt(tbs[idx + 6], 1)),
                                 valueAt(tbs[idx + 6], 1))],
     extensions |-> extensionsFrom(tbs, idx + 6,
                                   [present |-> FALSE, list |-> <<>>]),
     signatureAlgorithmCert |-> extractOIDField(valueAt(asn1, 1)),
     signatureValue |-> makeField(rawHexOrEmpty(valueAt(asn1, 2)),
                                  valueAt(asn1, 2))]

\* What a call of the mapper gives: the certificates it returns, or the
\* Error it throws.
Returned(certs) == [threw |-> FALSE, error |-> "none", certs |-> certs]
Thrown(error) == [threw |-> TRUE, error |-> error, certs |-> <<>>]

\* parseX509Certificate
parseX509Certificate(asn1) ==
    IF asn1.tag.type # "SEQUENCE" \/ ~asn1.tag.constructed
    THEN Thrown("Invalid X.509 Certificate structure")
    ELSE IF certificateThrows(asn1) THEN Thrown("TypeError")
    ELSE Returned(<<certificate(asn1, valueAt(asn1, 0).children,
                                idxAfterVersion(valueAt(asn1, 0).children))>>)

(***************************************************************************)
(* simplifyX509Certificate                                                 *)
(***************************************************************************)

\* One entry of the simplified extensions: the function given to map.
simplifiedExtension_Negated(ext) ==
    [oid |-> ext.extnID.value.oid,
     label |-> ext.extnID.value.label,
     critical |-> ~ext.critical.value,
     value |-> ext.value.value]

simplifiedExtension(ext) ==
    [oid |-> ext.extnID.value.oid,
     label |-> ext.extnID.value.label,
     critical |-> ext.critical.value,
     value |-> ext.value.value]

\* cert.extensions?.map(...): undefined for undefined.
simplifiedExtensions(extensions) ==
    [present |-> extensions.present,
     list |-> [k \in 1..Len(extensions.list) |->
                  simplifiedExtension(extensions.list[k])]]

\* simplifyX509Certificate: it reads cert and writes nothing to it.
simplifyX509Certificate(cert) ==
    [version |-> cert.version.value,
     serialNumber |-> cert.serialNumber.value,
     signatureAlgorithm |-> cert.signatureAlgorithm.value,
     issuer |-> [formatted |-> cert.issuer.formatted.value,
                 fields |-> cert.issuer.fields.value],
     validity |-> [notBefore |-> cert.validity.notBefore.value,
                   notAfter |-> cert.validity.notAfter.value],
     subject |-> [formatted |-> cert.subject.formatted.value,
                  fields |-> cert.subject.fields.value],
     subjectPublicKeyInfo |->
        [algorithm |-> cert.subjectPublicKeyInfo.algorithm.value,
         publicKey |-> cert.subjectPublicKeyInfo.publicKey.value],
     extensions |-> simplifiedExtensions(cert.extensions),
     signatureAlgorithmCert |-> cert.signatureAlgorithmCert.value,
     signatureValue |-> cert.signatureValue.value]

(***************************************************************************)
(* PEM                                                                     *)
(***************************************************************************)

\* bufferToUtf8: the decoder's TextDecoder('utf-8') on the whole input.
bufferToUtf8(bytes) == decodeString(bytes)

\* The least index i >= from where `marker` starts in text (characters
\* text[i..i+Len(marker)-1]); 0 when there is none.
indexOf(text, marker, from) ==
    LET hits == {i \in from..(Len(text) - Len(marker) + 1) :
                    SubSeq(text, i, i + Len(marker) - 1) = marker}
    IN  IF hits = {} THEN 0
        ELSE CHOOSE i \in hits : \A j \in hits : i <= j

\* pemString.includes('-----BEGIN CERTIFICATE-----')
includesBegin(text) == indexOf(text, BeginMarker, 1) # 0

\* The leftmost match of
\*   /-----BEGIN CERTIFICATE-----([\s\S]+?)-----END CERTIFICATE-----/
\* at or after `from`: the first BEGIN marker, at least one character, and
\* the first END marker that starts after that character.  When no END
\* marker follows the first BEGIN marker so, none follows a later one.
\* begin and end are the first and last index of the match; 0 when none.
matchFrom(begin, end) ==
    [found |-> begin # 0 /\ end # 0,
     begin |-> begin,
     end |-> IF end = 0 THEN 0 ELSE end + Len(EndMarker) - 1]

matchEnd(text, begin) ==
    IF begin = 0 THEN 0
    ELSE indexOf(text, EndMarker, begin + Len(BeginMarker) + 1)

matchPEM(text, from) ==
    matchFrom(indexOf(text, BeginMarker, from),
              matchEnd(text, indexOf(text, BeginMarker, from)))

\* The capture group of a match m, and the whole match.
captured(text, m) ==
    SubSeq(text, m.begin + Len(BeginMarker), m.end - Len(EndMarker))
matched(text, m) == SubSeq(text, m.begin, m.end)

\* pemString.match(/.../g): the matches from left to right, each search
\* starting after the match before.
RECURSIVE matchAllFrom(_, _)
matchAllNext(text, m) ==
    IF ~m.found THEN <<>>
    ELSE <<matched(text, m)>> \o matchAllFrom(text, m.end + 1)

matchAllFrom(text, from) == matchAllNext(text, matchPEM(text, from))

\* replace(/\s+/g, '')
stripWhiteSpace(text) == SelectSeq(text, LAMBDA c : ~IsWhiteSpace(c))

\* The base64 alphabet: the index of a character, -1 for any other.
base64Index(c) ==
    IF c >= 65 /\ c <= 90 THEN c - 65
    ELSE IF c >= 97 /\ c <= 122 THEN c - 71
    ELSE IF c >= 48 /\ c <= 57 THEN c + 4
    ELSE IF c = 43 THEN 62
    ELSE IF c = 47 THEN 63
    ELSE -1

\* atob, step by step (forgiving-base64 decode): when the length is a
\* multiple of 4, one or two '=' (61) at the end are removed; ...
unpadded(data) ==
    IF Len(data) % 4 = 0 /\ Len(data) > 0 /\ data[Len(data)] = 61
    THEN IF data[Len(data) - 1] = 61 THEN SubSeq(data, 1, Len(data) - 2)
         ELSE SubSeq(data, 1, Len(data) - 1)
    ELSE data

\* ... a length of 1 modulo 4, and a character outside the alphabet, are an
\* InvalidCharacterError; ...
atobThrows(data) ==
    \/ Len(unpadded(data)) % 4 = 1
    \/ \E i \in 1..Len(unpadded(data)) : base64Index(unpadded(data)[i]) < 0

\* ... four characters give three bytes, and of two or three characters at
\* the end the bits past the last whole byte are dropped.
RECURSIVE base64Bytes(_)
base64Bytes(idx) ==
    IF Len(idx) < 2 THEN <<>>
    ELSE IF Len(idx) = 2 THEN << idx[1] * 4 + idx[2] \div 16 >>
    ELSE IF Len(idx) = 3
    THEN << idx[1] * 4 + idx[2] \div 16, (idx[2] % 16) * 16 + idx[3] \div 4 >>
    ELSE << idx[1] * 4 + idx[2] \div 16, (idx[2] % 16) * 16 + idx[3] \div 4,
            (idx[3] % 4) * 64 + idx[4] >>
         \o base64Bytes(SubSeq(idx, 5, Len(idx)))

atob(data) ==
    base64Bytes([i \in 1..Len(unpadded(data)) |-> base64Index(unpadded(data)[i])])

\* What decodePEMtoDER gives: the bytes, or the Error it throws.
Bytes(bytes) == [threw |-> FALSE, error |-> "none", bytes |-> bytes]
NoBytes(error) == [threw |-> TRUE, error |-> error, bytes |-> <<>>]

\* decodePEMtoDER, given the match m of its regular expression (the capture
\* group holds at least one character).
decodeMatch(pem, m) ==
    IF ~m.found THEN NoBytes("Invalid PEM format")
    ELSE IF atobThrows(stripWhiteSpace(captured(pem, m)))
    THEN NoBytes("InvalidCharacterError")
    ELSE Bytes(atob(stripWhiteSpace(captured(pem, m))))

decodePEMtoDER(pem) == decodeMatch(pem, matchPEM(pem, 1))

(***************************************************************************)
(* loadX509FromBufferSync, loadX509AllFromBufferSync                       *)
(***************************************************************************)

\* The same as rootOfParsed but with the last node of parsed.result.
rootOfParsed_Last(parsed) ==
    IF Len(parsed.items) = 0 THEN Thrown("Parsed ASN.1 array is empty")
    ELSE IF parsed.items[Len(parsed.items)].tag.type # "SEQUENCE"
    THEN Thrown("Expected ASN.1 SEQUENCE at root")
    ELSE parseX509Certificate(parsed.items[Len(parsed.items)])

\* loadX509FromBufferSync from `parsed` on: parsed.result is an array (never
\* undefined), its first node has a tag and a value.
rootOfParsed(parsed) ==
    IF Len(parsed.items) = 0 THEN Thrown("Parsed ASN.1 array is empty")
    ELSE IF parsed.items[1].tag.type # "SEQUENCE"
    THEN Thrown("Expected ASN.1 SEQUENCE at root")
    ELSE parseX509Certificate(parsed.items[1])

\* ... from derData on.
loadDER(der) ==
    IF der.threw THEN Thrown(der.error)
    ELSE rootOfParsed(parseASN1(der.bytes, ParseAll))

\* loadX509FromBufferSync
loadX509FromBufferSync(input) ==
    IF Len(input) = 0 THEN Thrown("Input buffer is empty")
    ELSE IF includesBegin(bufferToUtf8(input))
    THEN loadDER(decodePEMtoDER(bufferToUtf8(input)))
    ELSE loadDER(Bytes(input))

\* The body of the for loop of loadX509AllFromBufferSync from `parsed` on,
\* and the non-PEM branch likewise, each with its message.
rootOfParsedAll(parsed, message) ==
    IF Len(parsed.items) = 0 THEN Thrown(message)
    ELSE IF parsed.items[1].tag.type # "SEQUENCE" THEN Thrown(message)
    ELSE parseX509Certificate(parsed.items[1])

loadOneOfAll(der, message) ==
    IF der.threw THEN Thrown(der.error)
    ELSE rootOfParsedAll(parseASN1(der.bytes, ParseAll), message)

\* for (const pem of matches) ... certificates.push(...): the first throw
\* ends the call.
RECURSIVE loadMatches(_, _, _)
\* pushCertificate with the failing block skipped instead of its Error
\* thrown.
pushCertificate_Skip(matches, i, certificates, one) ==
    IF one.threw THEN loadMatches(matches, i + 1, certificates)
    ELSE loadMatches(matches, i + 1, certificates \o one.certs)

pushCertificate(matches, i, certificates, one) ==
    IF one.threw THEN one
    ELSE loadMatches(matches, i + 1, certificates \o one.certs)

loadMatches(matches, i, certificates) ==
    IF i > Len(matches) THEN Returned(certificates)
    ELSE pushCertificate(matches, i, certificates,
            loadOneOfAll(decodePEMtoDER(matches[i]),
                "Invalid ASN.1 root node in one of the certificates"))

\* The check that ends loadX509AllFromBufferSync.
notEmpty(loaded) ==
    IF ~loaded.threw /\ Len(loaded.certs) = 0
    THEN Thrown("No valid X.509 certificates found")
    ELSE loaded

loadPEMs(matches) ==
    IF Len(matches) = 0 THEN Thrown("No PEM certificates found in input")
    ELSE notEmpty(loadMatches(matches, 1, <<>>))

\* loadX509AllFromBufferSync
loadX509AllFromBufferSync(input) ==
    IF Len(input) = 0 THEN Thrown("Input buffer is empty")
    ELSE IF includesBegin(bufferToUtf8(input))
    THEN loadPEMs(matchAllFrom(bufferToUtf8(input), 1))
    ELSE notEmpty(loadOneOfAll(Bytes(input), "Invalid ASN.1 root node"))

(***************************************************************************)
(* Input buffers of the decoder                                            *)
(***************************************************************************)

\* Sequences over S of length at most n.
RECURSIVE SeqsUpTo(_, _)
SeqsUpTo(S, n) ==
    IF n = 0 THEN {<<>>}
    ELSE LET shorter == SeqsUpTo(S, n - 1)
         IN  shorter \cup {Append(q, x) : q \in shorter, x \in S}

\* Every buffer of at most MaxLen bytes over Alphabet: primitive INTEGER
\* (0x02) and BOOLEAN (0x01) tags, SEQUENCE (0x30), short lengths 0, 1, 2,
\* the long form 0x81, and 0xFF (a multi-byte tag, a length of 127 bytes).
MaxLen == 4
Alphabet == {0, 1, 2, 48, 129, 255}
RawBuffers == SeqsUpTo(Alphabet, MaxLen)

\* Elements whose length field is the long form with four bytes (0x84),
\* constructed (SEQUENCE, 0x30) and primitive ([0], 0x80), alone or followed
\* by one more byte.
LongBytes == {0, 1, 128, 255}
LongBuffers ==
    {<<t, 132, a, b, c, d>> \o tail :
        t \in {48, 128}, a \in LongBytes, b \in LongBytes, c \in LongBytes,
        d \in LongBytes, tail \in {<<>>, <<0>>}}

\* Well-formed elements, and the streams of at most MaxElems of them.
MaxElems == 3
Elements ==
    { <<2, 1, 0>>,                          \* INTEGER 0
      <<1, 1, 255>>,                        \* BOOLEAN true
      <<5, 0>>,                             \* NULL
      <<4, 2, 1, 2>>,                       \* OCTET STRING 01 02
      <<48, 0>>,                            \* SEQUENCE {}
      <<48, 5, 2, 1, 0, 5, 0>>,             \* SEQUENCE { INTEGER, NULL }
      <<48, 129, 5, 49, 3, 2, 1, 255>>,     \* SEQUENCE { SET { INTEGER } }
      <<191, 129, 1, 3, 128, 1, 7>> }       \* [129] { [0] 07 }

RECURSIVE Streams(_)
Streams(n) ==
    IF n = 0 THEN {<<>>}
    ELSE LET shorter == Streams(n - 1)
         IN  shorter \cup {q \o e : q \in shorter, e \in Elements}

\* Elements that fail to decode: a declared length past the end of the
\* buffer, an indefinite length, a child that passes its parent's end into
\* the missing bytes, a length field of five bytes.
Broken == {<<2, 5, 0>>, <<48, 128, 0, 0>>, <<48, 3, 2, 5, 0>>, <<2, 133, 0>>}

\* A well-formed stream, then a broken element, then possibly more bytes.
BrokenStreams ==
    {q \o b \o t : q \in Streams(MaxElems - 1), b \in Broken,
                   t \in {<<>>, <<5, 0>>}}

\* OBJECT IDENTIFIER contents: rsaEncryption (1.2.840.113549.1.1.1), one
\* byte, 2.5.29.15, an arc written with a leading 0x80, the arcs 2^31 - 1,
\* 2^31 and 2^32 + 15, and contents that end inside a group.
OIDContents ==
    { <<42, 134, 72, 134, 247, 13, 1, 1, 1>>,
      <<42>>,
      <<85, 29, 15>>,
      <<120, 128, 1>>,
      <<42, 135, 255, 255, 255, 127>>,
      <<42, 136, 128, 128, 128, 0>>,
      <<85, 29, 144, 128, 128, 128, 15>>,
      <<42, 3, 134>> }
OIDElements == {<<6, Len(c)>> \o c : c \in OIDContents}

\* UTCTime contents: the instants of the examples, the pivot years 49 and 50,
\* a time without seconds, a leap day, fields outside the calendar (30
\* February, month 13, day 00, hour 25), and strings of another form.
UTCTimes ==
    { <<50, 51, 48, 49, 48, 49, 49, 50, 48, 48, 48, 48, 90>>,
          \* 230101120000Z: 2023-01-01T12:00:00Z
      <<55, 48, 48, 49, 48, 49, 48, 48, 48, 48, 48, 48, 90>>,
          \* 700101000000Z: 1970-01-01T00:00:00Z
      <<52, 57, 49, 50, 51, 49, 50, 51, 53, 57, 53, 57, 90>>,
          \* 491231235959Z: 2049-12-31T23:59:59Z
      <<53, 48, 48, 49, 48, 49, 48, 48, 48, 48, 48, 48, 90>>,
          \* 500101000000Z: 1950-01-01T00:00:00Z
      <<50, 51, 48, 49, 48, 49, 49, 50, 48, 48, 90>>,
          \* 2301011200Z: no seconds
      <<50, 52, 48, 50, 50, 57, 49, 50, 48, 48, 48, 48, 90>>,
          \* 240229120000Z: 29 February of a leap year
      <<50, 51, 48, 50, 51, 48, 49, 50, 48, 48, 48, 48, 90>>,
          \* 230230120000Z: 30 February
      <<50, 51, 49, 51, 48, 49, 48, 48, 48, 48, 48, 48, 90>>,
          \* 231301000000Z: month 13
      <<50, 51, 48, 49, 48, 48, 48, 48, 48, 48, 48, 48, 90>>,
          \* 230100000000Z: day 00
      <<50, 51, 48, 49, 48, 49, 50, 53, 48, 48, 48, 48, 90>>,
          \* 230101250000Z: hour 25
      <<50, 51, 48, 49, 48, 49, 49, 50, 48, 48, 48, 90>>,
          \* 23010112000Z: twelve characters
      <<50, 51, 48, 49, 48, 49, 49, 50, 48, 48, 48, 48, 43, 48, 49, 48, 48>> }
          \* 230101120000+0100: a local offset
UTCTimeElements == {<<23, Len(c)>> \o c : c \in UTCTimes}

\* Length fields that the decoder does not support or cannot read: the
\* indefinite form in a child and after a multi-byte tag, 0x85 with five
\* bytes after it, and the long form with fewer bytes left than it
\* announces, at the top and in a child.
LengthCases ==
    { <<48, 4, 2, 128, 0, 0>>,
      <<5, 0, 191, 129, 1, 128, 0, 0>>,
      <<2, 133, 0, 0, 0, 0, 1, 7>>,
      <<4, 130, 1>>,
      <<4, 132, 0, 0, 0>>,
      <<5, 0, 48, 3, 4, 130, 1>> }

\* Primitive elements of the classes CONTEXT-SPECIFIC, APPLICATION and
\* PRIVATE: [2] 05, [4] AA, [0] 01 02, APPLICATION 6 with 2A 03, PRIVATE 1
\* with FF, [23] with "2301011200Z", and [5] 07 inside a SEQUENCE.
ClassCases ==
    { <<130, 1, 5>>,
      <<132, 1, 170>>,
      <<128, 2, 1, 2>>,
      <<70, 2, 42, 3>>,
      <<193, 1, 255>>,
      <<151, 11, 50, 51, 48, 49, 48, 49, 49, 50, 48, 48, 90>>,
      <<48, 6, 2, 1, 0, 133, 1, 7>> }

\* INTEGER and ENUMERATED contents of 1 to 6 bytes: 0, 127, -128, -1 in
\* one, two, three and four bytes, 255, 2^31 - 1, 1 - 2^31, 2^31 in five bytes,
\* 2^32 in five bytes, -2^31 - 1 in five bytes, 2^40 in six bytes.  Every
\* content is one on which decodeInteger's result is itself a 32-bit number.
IntegerContents ==
    { <<0>>, <<127>>, <<128>>, <<255>>, <<255, 255>>, <<255, 255, 255>>,
      <<255, 255, 255, 255>>, <<0, 255>>, <<127, 255, 255, 255>>,
      <<128, 0, 0, 1>>, <<0, 128, 0, 0, 0>>, <<1, 0, 0, 0, 0>>,
      <<255, 127, 255, 255, 255>>, <<1, 0, 0, 0, 0, 0>> }
IntegerElements ==
    {<<t, Len(c)>> \o c : t \in {2, 10}, c \in IntegerContents}

Buffers ==
    RawBuffers \cup LongBuffers \cup Streams(MaxElems) \cup BrokenStreams
        \cup OIDElements \cup UTCTimeElements \cup LengthCases
        \cup ClassCases \cup IntegerElements

Options == [parseAll : BOOLEAN, simplify : BOOLEAN]

(***************************************************************************)
(* Inputs of the mapper: certificates written from templates, as DER and   *)
(* as PEM text                                                             *)
(***************************************************************************)

\* The DER encoding of an element of fewer than 256 content bytes.
lengthOctets(n) == IF n < 128 THEN <<n>> ELSE <<129, n>>
TLV(tag, content) == <<tag>> \o lengthOctets(Len(content)) \o content

RECURSIVE Concat(_)
Concat(ss) == IF ss = <<>> THEN <<>> ELSE Head(ss) \o Concat(Tail(ss))

\* The version element of a template: absent; [0] { INTEGER bytes }; an
\* empty [0]; a primitive [0]; [0] { BOOLEAN true }.
VersionForm(form, bytes) == [form |-> form, bytes |-> bytes]
VersionBytes(v) ==
    CASE v.form = "absent" -> <<>>
      [] v.form = "integer" -> TLV(160, TLV(2, v.bytes))
      [] v.form = "empty" -> <<160, 0>>
      [] v.form = "primitive" -> <<128, 1, 2>>
      [] v.form = "boolean" -> TLV(160, <<1, 1, 255>>)

Versions ==
    {VersionForm("absent", <<>>), VersionForm("empty", <<>>),
     VersionForm("primitive", <<>>), VersionForm("boolean", <<>>)}
    \cup {VersionForm("integer", b) :
            b \in {<<0>>, <<1>>, <<2>>, <<127>>, <<255>>, <<0, 128>>,
                   <<1, 0, 0>>, <<255, 127, 255, 255>>}}

\* serialNumber: INTEGER 5, INTEGER 00 FF, and an APPLICATION [0] element.
Serials == {<<2, 1, 5>>, <<2, 2, 0, 255>>, <<64, 1, 5>>}

\* An extension of a template: the extnID element, the critical element (or
\* nothing), the extnValue element; dispatched tells whether the OID that
\* extnID encodes is one of the nine that parseKnownExtension names, content
\* is the content of extnValue.  form tells what the content is for the
\* extension's grammar ("plain" when no grammar is looked at), and about
\* holds what a keyUsage or basicConstraints content encodes.
NoAbout ==
    [unused |-> 0, data |-> <<>>, cA |-> FALSE, hasPathLen |-> FALSE,
     pathLen |-> 0]
Extension(id, critical, tag, content, dispatched) ==
    [id |-> id, critical |-> critical, value |-> TLV(tag, content),
     content |-> content, dispatched |-> dispatched, form |-> "plain",
     about |-> NoAbout]
ExtensionBytes(e) == TLV(48, e.id \o e.critical \o e.value)

\* An extension with a dispatched OID (its content bytes given), carried in
\* a primitive OCTET STRING.
Known(oid, content, form) ==
    [Extension(TLV(6, oid), <<>>, 4, content, TRUE) EXCEPT !.form = form]

\* keyUsage: BIT STRING with u unused bits and the data bytes d.
KeyUsage(u, d) ==
    [Known(<<85, 29, 15>>, TLV(3, <<u>> \o d), "keyUsage")
        EXCEPT !.about = [NoAbout EXCEPT !.unused = u, !.data = d]]

\* The same with the length of the BIT STRING in the long form (81 02).
KeyUsageLongForm(u, d) ==
    [Known(<<85, 29, 15>>, <<3, 129, Len(d) + 1, u>> \o d, "keyUsage")
        EXCEPT !.about = [NoAbout EXCEPT !.unused = u, !.data = d]]

\* basicConstraints: SEQUENCE { BOOLEAN cA } and
\* SEQUENCE { BOOLEAN cA, INTEGER pathLen }.
BasicConstraints(cA, hasPathLen, pathLen) ==
    [Known(<<85, 29, 19>>,
           TLV(48, <<1, 1, IF cA THEN 255 ELSE 0>>
                   \o (IF hasPathLen THEN <<2, 1, pathLen>> ELSE <<>>)),
           "basicConstraints")
        EXCEPT !.about = [NoAbout EXCEPT !.cA = cA, !.hasPathLen = hasPathLen,
                                         !.pathLen = pathLen]]

\* The content bytes of the nine dispatched OIDs.
SubjectAltNameOID == <<85, 29, 17>>
CRLDistributionPointsOID == <<85, 29, 31>>
CertificatePoliciesOID == <<85, 29, 32>>
AuthorityKeyIdentifierOID == <<85, 29, 35>>
ExtendedKeyUsageOID == <<85, 29, 37>>
AuthorityInfoAccessOID == <<43, 6, 1, 5, 5, 7, 1, 1>>
QCStatementsOID == <<43, 6, 1, 5, 5, 7, 1, 3>>
DispatchedOIDs ==
    {SubjectAltNameOID, <<85, 29, 15>>, <<85, 29, 19>>,
     CRLDistributionPointsOID, CertificatePoliciesOID,
     AuthorityKeyIdentifierOID, ExtendedKeyUsageOID, AuthorityInfoAccessOID,
     QCStatementsOID}

\* Contents that follow no extension's grammar: NULL, SEQUENCE { NULL } and
\* SEQUENCE { INTEGER 5, NULL } ("shape"); a SEQUENCE cut short and the
\* single byte FF, which are no ASN.1 ("undecodable").
Shapeless == {<<5, 0>>, <<48, 2, 5, 0>>}
Undecodable == {<<48, 5, 0>>, <<255>>}

\* GeneralNames of the tags 1, 2, 6, 7, 4, 0 and 9.
GeneralNames ==
    TLV(48, TLV(129, <<97, 64, 98>>) \o TLV(130, <<98>>) \o TLV(134, <<99>>)
            \o TLV(135, <<10, 0, 0, 1>>)
            \o TLV(164, TLV(48, TLV(49, TLV(48, <<6, 3, 85, 4, 3, 12, 1, 65>>))))
            \o TLV(160, <<6, 1, 42>> \o TLV(160, <<12, 1, 65>>))
            \o TLV(137, <<1>>))

\* Contents that follow their grammar.
WellFormed ==
    { Known(SubjectAltNameOID, GeneralNames, "grammar"),
      \* GeneralNames { registeredID 1.2.3 }
      Known(SubjectAltNameOID, TLV(48, TLV(136, <<42, 3>>)), "grammar"),
      \* { DistributionPoint { [0] { [0] { [6] "u" } } } }
      Known(CRLDistributionPointsOID,
            TLV(48, TLV(48, TLV(160, TLV(160, TLV(134, <<117>>))))), "grammar"),
      \* { PolicyInformation { 1.2.3, { { cpsUri, IA5String "u" } } } }
      Known(CertificatePoliciesOID,
            TLV(48, TLV(48, <<6, 2, 42, 3>>
                            \o TLV(48, TLV(48, <<6, 8, 43, 6, 1, 5, 5, 7, 2, 1>>
                                               \o TLV(22, <<117>>))))),
            "grammar"),
      \* { [0] AA BB }
      Known(AuthorityKeyIdentifierOID, TLV(48, TLV(128, <<170, 187>>)), "grammar"),
      \* { 1.3.6.1.5.5.7.3.1 }
      Known(ExtendedKeyUsageOID, TLV(48, <<6, 8, 43, 6, 1, 5, 5, 7, 3, 1>>),
            "grammar"),
      \* { AccessDescription { 1.3.6.1.5.5.7.48.1, [6] "u" } }
      Known(AuthorityInfoAccessOID,
            TLV(48, TLV(48, <<6, 8, 43, 6, 1, 5, 5, 7, 48, 1>> \o TLV(134, <<117>>))),
            "grammar"),
      \* { QCStatement { 0.4.0.1862.1.1 },
      \*   QCStatement { 0.4.0.1862.1.6, { 0.4.0.1862.1.6.1 } },
      \*   QCStatement { 0.4.0.1862.1.5, { { IA5String "u", "en" } } } }
      Known(QCStatementsOID,
            TLV(48, TLV(48, <<6, 6, 4, 0, 142, 70, 1, 1>>)
                    \o TLV(48, <<6, 6, 4, 0, 142, 70, 1, 6>>
                               \o TLV(48, <<6, 7, 4, 0, 142, 70, 1, 6, 1>>))
                    \o TLV(48, <<6, 6, 4, 0, 142, 70, 1, 5>>
                               \o TLV(48, TLV(48, TLV(22, <<117>>)
                                                  \o TLV(19, <<101, 110>>))))),
            "grammar") }

\* A PolicyQualifierInfo without its qualifier.
QualifierWithoutValue ==
    Known(CertificatePoliciesOID,
          TLV(48, TLV(48, <<6, 2, 42, 3>>
                          \o TLV(48, TLV(48, <<6, 8, 43, 6, 1, 5, 5, 7, 2, 1>>)))),
          "shape")

\* keyUsage contents: 80, 80 with 7 unused bits, A0 with 5, 06 with 1,
\* 00 80 with 7, FF 80 with 9, FF FF, no data, seven bytes FF, and 80 with 7
\* unused bits under a long-form length.
KeyUsages ==
    {KeyUsage(0, <<128>>), KeyUsage(7, <<128>>), KeyUsage(5, <<160>>),
     KeyUsage(1, <<6>>), KeyUsage(7, <<0, 128>>), KeyUsage(9, <<255, 128>>),
     KeyUsage(0, <<255, 255>>), KeyUsage(0, <<>>),
     KeyUsage(0, <<255, 255, 255, 255, 255, 255, 255>>),
     KeyUsage(3, <<255, 255, 255, 255, 255, 255, 248>>),
     KeyUsageLongForm(7, <<128>>)}

BasicConstraintsSet ==
    {BasicConstraints(TRUE, FALSE, 0), BasicConstraints(FALSE, FALSE, 0),
     BasicConstraints(TRUE, TRUE, 0), BasicConstraints(TRUE, TRUE, 3),
     BasicConstraints(FALSE, TRUE, 1)}

\* The extensions with a dispatched OID.
KnownExtensions ==
    WellFormed \cup {QualifierWithoutValue} \cup KeyUsages
    \cup BasicConstraintsSet
    \cup {Known(oid, content, "shape") :
            oid \in DispatchedOIDs, content \in Shapeless}
    \cup {Known(oid, content, "undecodable") :
            oid \in DispatchedOIDs, content \in Undecodable}

Extensions ==
    { \* 1.2.3, not critical, OCTET STRING 01 02
      Extension(<<6, 2, 42, 3>>, <<>>, 4, <<1, 2>>, FALSE),
      \* 2.5.29.14 (subjectKeyIdentifier), critical, OCTET STRING 04 01 AA
      Extension(<<6, 3, 85, 29, 14>>, <<1, 1, 255>>, 4, <<4, 1, 170>>, FALSE),
      \* 2.5.29.19 (basicConstraints), critical, SEQUENCE { BOOLEAN true }
      Extension(<<6, 3, 85, 29, 19>>, <<1, 1, 255>>, 4, <<48, 3, 1, 1, 255>>, TRUE),
      \* 2.5.29.15 (keyUsage), BIT STRING 07 80
      KeyUsage(7, <<128>>),
      \* 2.5.29.4294967311 (last arc 2^32 + 15), BIT STRING 07 80
      Extension(<<6, 7, 85, 29, 144, 128, 128, 128, 15>>, <<>>, 4,
                <<3, 2, 7, 128>>, FALSE),
      \* 1.2.3 with a constructed OCTET STRING { OCTET STRING AA }
      Extension(<<6, 2, 42, 3>>, <<>>, 36, <<4, 1, 170>>, FALSE) }

\* Extensions of one, two, three and four children: OID 1.2.3 alone; OID and
\* BOOLEAN true; OID, BOOLEAN false, OCTET STRING; OID, BOOLEAN true, OCTET
\* STRING; OID, BOOLEAN true, NULL, OCTET STRING.
FieldCounts ==
    { Extension(<<>>, <<>>, 6, <<42, 3>>, FALSE),
      Extension(<<6, 2, 42, 3>>, <<>>, 1, <<255>>, FALSE),
      Extension(<<6, 2, 42, 3>>, <<1, 1, 0>>, 4, <<1, 2>>, FALSE),
      Extension(<<6, 2, 42, 3>>, <<1, 1, 255>>, 4, <<1, 2>>, FALSE),
      Extension(<<6, 2, 42, 3>>, <<1, 1, 255, 5, 0>>, 4, <<1, 2>>, FALSE) }

\* The lists of at most n extensions.
RECURSIVE ExtensionLists(_)
ExtensionLists(n) ==
    IF n = 0 THEN {<<>>}
    ELSE ExtensionLists(n - 1)
         \cup {Append(q, e) : q \in ExtensionLists(n - 1), e \in Extensions}

RECURSIVE ExtensionListBytes(_)
ExtensionListBytes(exts) ==
    IF exts = <<>> THEN <<>>
    ELSE ExtensionBytes(Head(exts)) \o ExtensionListBytes(Tail(exts))

\* [3] { SEQUENCE { extensions } }, or nothing for the empty list.
ExtensionsBytes(exts) ==
    IF exts = <<>> THEN <<>>
    ELSE TLV(163, TLV(48, ExtensionListBytes(exts)))

\* The fixed parts: AlgorithmIdentifier { 1.2.840.113549.1.1.11 }, the
\* issuer CN=A, an empty subject, a public key and a signature.
Algorithm == TLV(48, <<6, 9, 42, 134, 72, 134, 247, 13, 1, 1, 11>>)
\* An AttributeTypeAndValue: the content and the arcs of the type OID, its
\* label in OID_MAP ("" when it has none), the tag and the characters of
\* the value.
Attribute(oid, arcs, label, tag, text) ==
    [oid |-> oid, arcs |-> arcs, label |-> label, tag |-> tag, text |-> text]
AttributeBytes(a) == TLV(48, TLV(6, a.oid) \o TLV(a.tag, a.text))
RDNBytes(rdn) ==
    TLV(49, Concat([k \in 1..Len(rdn) |-> AttributeBytes(rdn[k])]))

\* A Name of RDNs (each the list of its attributes), and an element that is
\* not constructed in the place of a Name.
NameOf(rdns) ==
    [constructed |-> TRUE, rdns |-> rdns,
     bytes |-> TLV(48, Concat([k \in 1..Len(rdns) |-> RDNBytes(rdns[k])]))]
NotAName(bytes) == [constructed |-> FALSE, rdns |-> <<>>, bytes |-> bytes]

\* CN=A, CN=example, C=FR (PrintableString), O=Acme, 1.2.3=a@b (IA5String).
CommonNameA == Attribute(<<85, 4, 3>>, <<2, 5, 4, 3>>, "commonName", 12, <<65>>)
CommonNameExample ==
    Attribute(<<85, 4, 3>>, <<2, 5, 4, 3>>, "commonName", 12,
              <<101, 120, 97, 109, 112, 108, 101>>)
CountryFR == Attribute(<<85, 4, 6>>, <<2, 5, 4, 6>>, "countryName", 19, <<70, 82>>)
OrganizationAcme ==
    Attribute(<<85, 4, 10>>, <<2, 5, 4, 10>>, "organizationName", 12,
              <<65, 99, 109, 101>>)
Unlabelled == Attribute(<<42, 3>>, <<1, 2, 3>>, "", 22, <<97, 64, 98>>)

Issuer == NameOf(<< <<CommonNameA>> >>)
Subject == NameOf(<<>>)

\* Names of no, one, two and three RDNs, with RDNs of two attributes, and
\* elements that are not constructed: a primitive UNIVERSAL 16, a
\* UTF8String, an empty OCTET STRING.
Names ==
    { Issuer, Subject,
      NameOf(<< <<CountryFR>>, <<OrganizationAcme>>, <<CommonNameExample>> >>),
      NameOf(<< <<CommonNameA, OrganizationAcme>>, <<CountryFR>> >>),
      NameOf(<< <<Unlabelled>>, <<CommonNameA>> >>),
      NameOf(<< <<OrganizationAcme, Unlabelled>> >>),
      NotAName(<<16, 2, 49, 0>>), NotAName(<<12, 1, 65>>), NotAName(<<4, 0>>) }

\* subjectAltName { [4] { Name } } for every Name with an RDN.
DirectoryName(name) ==
    Known(SubjectAltNameOID, TLV(48, TLV(164, name.bytes)), "directoryName")
DirectoryNames ==
    {DirectoryName(n) : n \in {m \in Names : m.constructed /\ m.rdns # <<>>}}

\* A time of the validity: the tag (UTCTime 0x17, GeneralizedTime 0x18) and
\* the characters of the content.
Time(tag, text) == [tag |-> tag, text |-> text]
NotBefore == Time(23, <<50, 51, 48, 49, 48, 49, 49, 50, 48, 48, 48, 48, 90>>)
NotAfter ==
    Time(24, <<50, 48, 51, 48, 48, 49, 48, 49, 48, 48, 48, 48, 48, 48, 90>>)
PublicKeyInfo == TLV(48, Algorithm \o <<3, 3, 0, 1, 2>>)
Signature == <<3, 2, 0, 171>>

\* A template: the identifier byte of the root, the number of its children
\* (TBSCertificate, signatureAlgorithm, signatureValue, then NULLs), and the
\* version, serialNumber and extensions of TBSCertificate.
\* The validity is 230101120000Z (UTCTime) to 20300101000000Z
\* (GeneralizedTime) unless WithValidity writes another.  The children
\* after subjectPublicKeyInfo are the [3] of the extensions alone unless
\* WithOptional writes the children before and after it.  The issuer is
\* CN=A and the subject is empty unless WithNames writes others.
Template(root, count, version, serial, exts) ==
    [root |-> root, count |-> count, version |-> version, serial |-> serial,
     exts |-> exts, notBefore |-> NotBefore, notAfter |-> NotAfter,
     before |-> <<>>, after |-> <<>>, issuer |-> Issuer,
     subject |-> Subject]

WithValidity(t, notBefore, notAfter) ==
    [t EXCEPT !.notBefore = notBefore, !.notAfter = notAfter]

WithNames(t, issuer, subject) ==
    [t EXCEPT !.issuer = issuer, !.subject = subject]

WithOptional(t, before, after) ==
    [t EXCEPT !.before = before, !.after = after]

\* before, [3] { SEQUENCE { extensions } } (nothing for the empty list),
\* after.
OptionalFields(t) == t.before \o ExtensionsBytes(t.exts) \o t.after

Validity(t) ==
    TLV(48, TLV(t.notBefore.tag, t.notBefore.text)
            \o TLV(t.notAfter.tag, t.notAfter.text))

TBSCertificate(t) ==
    TLV(48, VersionBytes(t.version) \o t.serial \o Algorithm
            \o t.issuer.bytes \o Validity(t) \o t.subject.bytes
            \o PublicKeyInfo \o OptionalFields(t))

RootChild(t, k) ==
    CASE k = 1 -> TBSCertificate(t)
      [] k = 2 -> Algorithm
      [] k = 3 -> Signature
      [] OTHER -> <<5, 0>>

DER(t) == TLV(t.root, Concat([k \in 1..t.count |-> RootChild(t, k)]))

\* The templates: every version and serialNumber in a certificate of three
\* children; every root and number of children; every list of extensions;
\* every extension with a dispatched OID on its own; every pair of times.
\* Roots: SEQUENCE (0x30), constructed APPLICATION 16 (0x70), constructed
\* [16] (0xB0), constructed PRIVATE 16 (0xF0), primitive UNIVERSAL 16
\* (0x10), SET (0x31).
MaxChildren == 4
MaxExtensions == 2
Roots == {48, 112, 176, 240, 16, 49}
Version3 == VersionForm("integer", <<2>>)

\* Times of the validity, matching the patterns of decodeDate and not.
Times ==
    { NotBefore, NotAfter,
      \* 2301011200Z: UTCTime without seconds
      Time(23, <<50, 51, 48, 49, 48, 49, 49, 50, 48, 48, 90>>),
      \* 230101120000+0100: UTCTime with a local offset
      Time(23, <<50, 51, 48, 49, 48, 49, 49, 50, 48, 48, 48, 48, 43, 48, 49, 48, 48>>),
      \* 23-01-011200Z: UTCTime, 13 characters with dashes
      Time(23, <<50, 51, 45, 48, 49, 45, 48, 49, 49, 50, 48, 48, 90>>),
      \* abcdefghijklZ: UTCTime, 13 characters without a digit
      Time(23, <<97, 98, 99, 100, 101, 102, 103, 104, 105, 106, 107, 108, 90>>),
      \* 20300101000000Z: UTCTime tag on a four-digit year
      Time(23, <<50, 48, 51, 48, 48, 49, 48, 49, 48, 48, 48, 48, 48, 48, 90>>),
      \* 20230101120000.5Z: GeneralizedTime with a fraction
      Time(24, <<50, 48, 50, 51, 48, 49, 48, 49, 49, 50, 48, 48, 48, 48, 46, 53, 90>>),
      \* xxxxxxxxxxxxxxZ: GeneralizedTime, 15 characters without a digit
      Time(24, <<120, 120, 120, 120, 120, 120, 120, 120, 120, 120, 120, 120, 120, 120, 90>>) }

\* issuerUniqueID [1] and subjectUniqueID [2], primitive and constructed.
IssuerUniqueID == <<129, 2, 0, 170>>
SubjectUniqueID == <<130, 2, 0, 187>>
UniqueIDs ==
    { <<>>, IssuerUniqueID, SubjectUniqueID, IssuerUniqueID \o SubjectUniqueID,
      SubjectUniqueID \o <<161, 2, 5, 0>> \o IssuerUniqueID \o <<162, 0>> }

\* A [3] whose first inner element is not a SEQUENCE: around a SET, a
\* constructed APPLICATION 16, a constructed [16] and a primitive UNIVERSAL
\* 16 that hold the extension 1.2.3; around an INTEGER; empty; primitive.
Extension123 == <<48, 8, 6, 2, 42, 3, 4, 2, 1, 2>>
NotExtensions ==
    {TLV(163, TLV(i, Extension123)) : i \in {49, 112, 176, 16}}
    \cup {<<163, 3, 2, 1, 5>>, <<163, 0>>, <<131, 1, 0>>}

Templates ==
    {Template(48, 3, v, s, <<>>) : v \in Versions, s \in Serials}
    \cup {WithNames(Template(48, 3, Version3, <<2, 1, 5>>, <<>>), i, n) :
            i \in Names, n \in Names}
    \cup {WithOptional(Template(48, 3, Version3, <<2, 1, 5>>, exts), b, a) :
            exts \in ExtensionLists(1), b \in UniqueIDs, a \in UniqueIDs}
    \cup {WithOptional(Template(48, 3, Version3, <<2, 1, 5>>, exts), b, <<>>) :
            exts \in ExtensionLists(1),
            b \in {n \o u : n \in NotExtensions, u \in {<<>>, IssuerUniqueID}}}
    \cup {Template(r, c, Version3, <<2, 1, 5>>, <<>>) :
            r \in Roots, c \in 0..MaxChildren}
    \cup {Template(48, 3, v, <<2, 1, 5>>, exts) :
            v \in {Version3, VersionForm("absent", <<>>)},
            exts \in ExtensionLists(MaxExtensions)}
    \cup {Template(48, 3, Version3, <<2, 1, 5>>, <<e>>) :
            e \in KnownExtensions \cup FieldCounts \cup DirectoryNames}
    \cup {Template(48, 3, Version3, <<2, 1, 5>>, <<e, f>>) :
            e \in FieldCounts, f \in FieldCounts}
    \cup {WithValidity(Template(48, 3, Version3, <<2, 1, 5>>, <<>>), b, a) :
            b \in Times, a \in Times}

\* The text of a base64 string: the character of every alphabet index.
base64Char(i) ==
    IF i < 26 THEN 65 + i
    ELSE IF i < 52 THEN 71 + i
    ELSE IF i < 62 THEN i - 4
    ELSE IF i = 62 THEN 43
    ELSE IF i = 63 THEN 47
    ELSE 61

base64Text(b64) == [i \in 1..Len(b64) |-> base64Char(b64[i])]

\* The text in lines of `width` characters, each ended by eol.
RECURSIVE Lines(_, _, _)
Lines(text, width, eol) ==
    IF Len(text) <= width THEN text \o eol
    ELSE SubSeq(text, 1, width) \o eol
         \o Lines(SubSeq(text, width + 1, Len(text)), width, eol)

\* A PEM block: the markers around the base64 text of der, in lines of 64
\* characters.  decodes tells whether the text between the markers is
\* base64 at all.
Block(der, eol) ==
    [der |-> der, decodes |-> TRUE,
     text |-> BeginMarker \o eol \o Lines(base64Text(bytesToBase64(der)), 64, eol)
              \o EndMarker \o eol]

\* A block whose text is not base64 ("M*I="), and one with nothing but a
\* line break between the markers.
NotBase64 ==
    [der |-> <<>>, decodes |-> FALSE,
     text |-> BeginMarker \o <<10, 77, 42, 73, 61, 10>> \o EndMarker \o <<10>>]
NoBody ==
    [der |-> <<>>, decodes |-> TRUE,
     text |-> BeginMarker \o <<10>> \o EndMarker \o <<10>>]

\* The blocks: two certificates (one with CR LF line ends), a certificate of
\* two children, an INTEGER, and the two above.
Blocks ==
    { Block(DER(Template(48, 3, Version3, <<2, 1, 5>>, <<>>)), <<10>>),
      Block(DER(Template(48, 3, VersionForm("absent", <<>>), <<2, 2, 0, 255>>,
                         <<>>)), <<13, 10>>),
      Block(DER(Template(48, 2, Version3, <<2, 1, 5>>, <<>>)), <<10>>),
      Block(<<2, 1, 5>>, <<10>>),
      NotBase64, NoBody }

\* The lists of 1..n blocks.
MaxBlocks == 2
RECURSIVE BlockLists(_)
BlockLists(n) ==
    IF n = 0 THEN {<<>>}
    ELSE BlockLists(n - 1)
         \cup {Append(q, b) : q \in BlockLists(n - 1), b \in Blocks}

\* The text of a list of blocks, `before` written before each.
RECURSIVE PEM(_, _)
PEM(blocks, before) ==
    IF blocks = <<>> THEN <<>>
    ELSE before \o Head(blocks).text \o PEM(Tail(blocks), before)

\* An input with what it was made of: kind "der" (a template), "appended"
\* (a template and bytes after it), "pem" (a list of blocks) or "raw"
\* (bytes).
NoTemplate == Template(0, 0, VersionForm("absent", <<>>), <<>>, <<>>)
Made(kind, template, blocks, bytes) ==
    [made |-> [kind |-> kind, template |-> template, blocks |-> blocks],
     input |-> bytes]

\* Raw inputs: nothing; a SEQUENCE cut short; an INTEGER; a BEGIN marker
\* without an END marker.
RawInputs == {<<>>, <<48, 5, 0>>, <<2, 1, 5>>, BeginMarker \o <<10, 77, 73>>}

\* "# c" and a line break, the text before a block.
Comment == <<35, 32, 99, 10>>

\* Bytes after the certificate: a NULL; a SEQUENCE { INTEGER 5 } and a NULL;
\* another certificate; a SEQUENCE cut short; an indefinite length; a lone
\* byte; a NULL and then a length of five bytes; the characters of the BEGIN
\* marker.
Tails ==
    { <<5, 0>>, <<48, 3, 2, 1, 5, 5, 0>>, BeginMarker,
      DER(Template(48, 3, VersionForm("absent", <<>>), <<2, 2, 0, 255>>, <<>>)),
      <<48, 5, 0>>, <<2, 128>>, <<255>>, <<5, 0, 4, 133, 0, 0, 0, 0, 1>> }

\* The certificates that bytes are written after: every root, with two and
\* three children, and certificates with an extension.
Appended ==
    {Template(r, c, Version3, <<2, 1, 5>>, <<>>) : r \in Roots, c \in {2, 3}}
    \cup {Template(48, 3, Version3, <<2, 1, 5>>, exts) :
            exts \in ExtensionLists(1)}

Inputs ==
    {Made("der", t, <<>>, DER(t)) : t \in Templates}
    \cup {Made("appended", t, <<>>, DER(t) \o tail) :
            t \in Appended, tail \in Tails}
    \cup {Made("pem", NoTemplate, q, PEM(q, before)) :
            q \in BlockLists(MaxBlocks) \ {<<>>}, before \in {<<>>, Comment}}
    \cup {Made("raw", NoTemplate, <<>>, b) : b \in RawInputs}

(***************************************************************************)
(* The mapper as a state machine: one call of an entry point on `given`    *)
(***************************************************************************)

NoOutcome == [threw |-> FALSE, error |-> "none", certs |-> <<>>]

\* No call of simplifyX509Certificate yet.
NotSimplified ==
    [done |-> FALSE, index |-> 0, cert |-> <<>>, before |-> NoOutcome]

MapperInit ==
    /\ \E x \in Inputs : made = x.made /\ given = x.input
    /\ call = "none"
    /\ outcome = NoOutcome
    /\ buffer = <<>>
    /\ options = ParseAll
    /\ offset = 0
    /\ nodes = <<>>
    /\ errors = <<>>
    /\ pc = "idle"
    /\ result = NoResult
    /\ simplified = NotSimplified
    /\ runs = <<>>

\* loadX509FromBufferSync(given)
LoadOne ==
    /\ call = "none"
    /\ call' = "loadX509FromBufferSync"
    /\ outcome' = loadX509FromBufferSync(given)
    /\ UNCHANGED <<given, made, buffer, options, offset, nodes, errors, pc,
                   result, simplified, runs>>

\* loadX509AllFromBufferSync(given)
LoadAll ==
    /\ call = "none"
    /\ call' = "loadX509AllFromBufferSync"
    /\ outcome' = loadX509AllFromBufferSync(given)
    /\ UNCHANGED <<given, made, buffer, options, offset, nodes, errors, pc,
                   result, simplified, runs>>

\* parseX509Certificate(root) for the root node that parseASN1 decodes from
\* a DER input.
ParseCertificate ==
    /\ call = "none"
    /\ made.kind = "der"
    /\ call' = "parseX509Certificate"
    /\ outcome' = parseX509Certificate(parseASN1(given, ParseAll).items[1])
    /\ UNCHANGED <<given, made, buffer, options, offset, nodes, errors, pc,
                   result, simplified, runs>>

\* simplifyX509Certificate(cert) for a certificate that the call returned:
\* the function has no assignment to cert, the certificates stay as they
\* are.
Simplify ==
    /\ ~simplified.done
    /\ \E i \in 1..Len(outcome.certs) :
          simplified' = [done |-> TRUE, index |-> i,
                         cert |-> simplifyX509Certificate(outcome.certs[i]),
                         before |-> outcome]
    /\ UNCHANGED <<given, made, call, outcome, buffer, options, offset, nodes,
                   errors, pc, result, runs>>

MapperNext == LoadOne \/ LoadAll \/ ParseCertificate \/ Simplify

MapperSpec == MapperInit /\ [][MapperNext]_vars

(***************************************************************************)
(* The decoder as a state machine: one parseASN1 call on `buffer`          *)
(***************************************************************************)

Init ==
    /\ buffer \in Buffers
    /\ options \in Options
    /\ offset = 0
    /\ nodes = <<>>
    /\ errors = <<>>
    /\ pc = "loop"
    /\ result = NoResult
    /\ given = <<>>
    /\ made = [kind |-> "none", template |-> NoTemplate, blocks |-> <<>>]
    /\ call = "none"
    /\ outcome = NoOutcome
    /\ simplified = NotSimplified
    /\ runs = <<>>

\* The parser's fields after one turn of the loop with outcome it.
Iterate(it) ==
    /\ offset' = it.offset
    /\ nodes' = it.nodes
    /\ errors' = it.errors
    /\ pc' = IF it.stop THEN "return" ELSE "loop"

\* One turn of the while loop of parse().
ParseStep ==
    /\ pc = "loop"
    /\ offset < Len(buffer)
    /\ Iterate(parseIteration(buffer, offset, nodes, errors, options))
    /\ UNCHANGED <<buffer, options, result, given, made, call, outcome,
                   simplified, runs>>

\* The loop condition fails: the buffer is exhausted.
LoopExit ==
    /\ pc = "loop"
    /\ ~(offset < Len(buffer))
    /\ pc' = "return"
    /\ UNCHANGED <<buffer, options, offset, nodes, errors, result, given, made,
                   call, outcome, simplified, runs>>

\* The result expression and the return of parse().
Return ==
    /\ pc = "return"
    /\ result' = parseResult(nodes, errors, options)
    /\ pc' = IF result'.threw THEN "threw" ELSE "done"
    /\ UNCHANGED <<buffer, options, offset, nodes, errors, given, made, call,
                   outcome, simplified, runs>>

Next == ParseStep \/ LoopExit \/ Return

Spec == Init /\ [][Next]_vars

\* The call in one piece agrees with the steps.
StepsAgree == pc \in {"done", "threw"} => result = parseASN1(buffer, options)

(***************************************************************************)
(* Two parseASN1 calls at once: each call makes its own ASN1Parser, whose  *)
(* fields offset and errors are instance fields and whose list nodes is a  *)
(* local of parse(); the steps of the two calls interleave.                *)
(***************************************************************************)

\* new ASN1Parser(buffer, options), at the start of parse(): offset 0, no
\* error, no node.  turns counts the turns of the loop it has made.
Parser(buf, opts) ==
    [buffer |-> buf, options |-> opts, offset |-> 0, errors |-> <<>>,
     nodes |-> <<>>, pc |-> "loop", result |-> NoResult, turns |-> 0]

\* this.offset of parser i: a field of the instance.
cursorOf_Shared(parsers, i) == parsers[1].offset

cursorOf(parsers, i) == parsers[i].offset

\* The parser after one turn of the loop with outcome it.
afterTurn(parser, it) ==
    [parser EXCEPT !.offset = it.offset, !.nodes = it.nodes,
                   !.errors = it.errors,
                   !.pc = IF it.stop THEN "return" ELSE "loop",
                   !.turns = @ + 1]

\* The parser after parse() has returned or thrown.
afterReturn(parser, res) ==
    [parser EXCEPT !.result = res,
                   !.pc = IF res.threw THEN "threw" ELSE "done"]

\* One turn of the while loop of parse() in parser i.
RunStep(i) ==
    /\ runs[i].pc = "loop"
    /\ cursorOf(runs, i) < Len(runs[i].buffer)
    /\ runs' = [runs EXCEPT ![i] =
                  afterTurn(runs[i],
                            parseIteration(runs[i].buffer, cursorOf(runs, i),
                                           runs[i].nodes, runs[i].errors,
                                           runs[i].options))]

\* The loop condition of parser i fails.
RunExit(i) ==
    /\ runs[i].pc = "loop"
    /\ ~(cursorOf(runs, i) < Len(runs[i].buffer))
    /\ runs' = [runs EXCEPT ![i].pc = "return"]

\* The result expression and the return of parse() in parser i.
RunReturn(i) ==
    /\ runs[i].pc = "return"
    /\ runs' = [runs EXCEPT ![i] =
                  afterReturn(runs[i],
                              parseResult(runs[i].nodes, runs[i].errors,
                                          runs[i].options))]

PairStep ==
    /\ \E i \in 1..Len(runs) : RunStep(i)
    /\ UNCHANGED <<buffer, options, offset, nodes, errors, pc, result, given,
                   made, call, outcome, simplified>>

PairExit ==
    /\ \E i \in 1..Len(runs) : RunExit(i)
    /\ UNCHANGED <<buffer, options, offset, nodes, errors, pc, result, given,
                   made, call, outcome, simplified>>

PairReturn ==
    /\ \E i \in 1..Len(runs) : RunReturn(i)
    /\ UNCHANGED <<buffer, options, offset, nodes, errors, pc, result, given,
                   made, call, outcome, simplified>>

\* The buffers of two calls: nothing; INTEGER, NULL; a SEQUENCE and an
\* OCTET STRING; NULL, an INTEGER cut short, NULL; three BOOLEAN and
\* INTEGER elements; the keyUsage extension 2.5.29.15 and, for the nested
\* decode of its value, the BIT STRING 07 80 that its OCTET STRING holds.
PairBuffers ==
    { <<>>,
      <<2, 1, 0, 5, 0>>,
      <<48, 5, 2, 1, 0, 5, 0, 4, 2, 1, 2>>,
      <<5, 0, 2, 5, 0, 5, 0>>,
      <<1, 1, 255, 1, 1, 0, 2, 1, 5>>,
      <<48, 11, 6, 3, 85, 29, 15, 4, 4, 3, 2, 7, 128>>,
      <<3, 2, 7, 128>> }

PairInit ==
    /\ runs \in {<<Parser(b, o), Parser(c, q)>> :
                    b \in PairBuffers, o \in Options,
                    c \in PairBuffers, q \in Options}
    /\ buffer = <<>>
    /\ options = ParseAll
    /\ offset = 0
    /\ nodes = <<>>
    /\ errors = <<>>
    /\ pc = "idle"
    /\ result = NoResult
    /\ given = <<>>
    /\ made = [kind |-> "none", template |-> NoTemplate, blocks |-> <<>>]
    /\ call = "none"
    /\ outcome = NoOutcome
    /\ simplified = NotSimplified

PairNext == PairStep \/ PairExit \/ PairReturn

PairSpec == PairInit /\ [][PairNext]_vars

(***************************************************************************)
(* The definite-length TLV grammar (X.690), read off the bytes without the *)
(* decoder: what the claims call a well-formed element, its header and its *)
(* declared length.                                                        *)
(***************************************************************************)

\* The end of the tag that starts at byte p, or -1 when the buffer ends
\* inside it.
RECURSIVE HighTagEnd(_, _)
HighTagEnd(buf, p) ==
    IF p >= Len(buf) THEN -1
    ELSE IF buf[p + 1] >= 128 THEN HighTagEnd(buf, p + 1)
    ELSE p + 1

TagEnd(buf, p) ==
    IF p >= Len(buf) THEN -1
    ELSE IF buf[p + 1] % 32 = 31 THEN HighTagEnd(buf, p + 1)
    ELSE p + 1

\* The number of bytes of the length field at byte q: 1 for the short form,
\* 1 + n for the long form with n = 1..4 bytes; -1 when the field is cut
\* short by the end of the buffer, indefinite (0x80) or longer than 4 bytes.
LengthFieldSize(buf, q) ==
    IF q < 0 \/ q >= Len(buf) THEN -1
    ELSE IF buf[q + 1] < 128 THEN 1
    ELSE IF buf[q + 1] = 128 \/ buf[q + 1] > 132 THEN -1
    ELSE IF q + 1 + (buf[q + 1] - 128) > Len(buf) THEN -1
    ELSE 1 + (buf[q + 1] - 128)

\* The end of the header (tag and length field) of the element at p, or -1.
HeaderEnd(buf, p) ==
    LET q == TagEnd(buf, p)
    IN  IF q < 0 \/ LengthFieldSize(buf, q) < 0 THEN -1
        ELSE q + LengthFieldSize(buf, q)

\* The unsigned big-endian value of bytes buf[a+1..b], for a value below 2^31.
RECURSIVE Unsigned(_, _, _)
Unsigned(buf, a, b) ==
    IF a >= b THEN 0 ELSE Unsigned(buf, a, b - 1) * 256 + buf[b]

\* Whether the unsigned value of the length field at q exceeds n (n < 2^31):
\* a four-byte value with the top bit set is at least 2^31.
DeclaredExceeds(buf, q, n) ==
    LET size == LengthFieldSize(buf, q)
    IN  IF size = 1 THEN buf[q + 1] > n
        ELSE IF size = 5 /\ buf[q + 2] >= 128 THEN TRUE
        ELSE Unsigned(buf, q + 1, q + size) > n

\* The unsigned declared length, when it does not exceed what is left.
DeclaredLength(buf, q) ==
    LET size == LengthFieldSize(buf, q)
    IN  IF size = 1 THEN buf[q + 1] ELSE Unsigned(buf, q + 1, q + size)

\* The number of well-formed elements that exactly fill bytes [from, to) of
\* the buffer, every constructed one exactly filled by its children; -1 when
\* the range is not such a concatenation.
RECURSIVE WellFormedCount(_, _, _)
WellFormedCount(buf, from, to) ==
    IF from = to THEN 0
    ELSE LET q == TagEnd(buf, from)
             h == HeaderEnd(buf, from)
         IN  IF h < 0 \/ h > to \/ DeclaredExceeds(buf, q, to - h) THEN -1
             ELSE LET end  == h + DeclaredLength(buf, q)
                      cons == (buf[from + 1] \div 32) % 2 = 1
                      rest == WellFormedCount(buf, end, to)
                  IN  IF cons /\ WellFormedCount(buf, h, end) < 0 THEN -1
                      ELSE IF rest < 0 THEN -1
                      ELSE 1 + rest

WellFormedStream(buf) == WellFormedCount(buf, 0, Len(buf)) >= 0

(***************************************************************************)
(* Claims                                                                  *)
(***************************************************************************)

\* The byte after the last byte that node n declares: offset + header
\* length + length.value.
DeclaredEnd(n) == HeaderEnd(buffer, n.offset) + n.length.value

\* C1: on a buffer that is a concatenation of N well-formed definite-length
\* elements the decoder records no error, every node starts where the one
\* before it ends by its header length and declared length (the first at 0),
\* the cursor stands at the end of the last node decoded, and a finished
\* parseAll call returns N nodes, the last ending at the buffer length.
C1_ContiguousStream ==
    WellFormedStream(buffer) =>
        /\ errors = <<>>
        /\ \A k \in 1..Len(nodes) :
              /\ nodes[k].offset = IF k = 1 THEN 0 ELSE DeclaredEnd(nodes[k - 1])
              /\ nodes[k].offset < DeclaredEnd(nodes[k])
        /\ offset = IF nodes = <<>> THEN 0 ELSE DeclaredEnd(nodes[Len(nodes)])
        /\ (pc = "done" /\ options.parseAll) =>
              /\ result.errors = <<>>
              /\ result.isArray
              /\ Len(result.items) = WellFormedCount(buffer, 0, Len(buffer))
              /\ \A k \in 1..Len(result.items) :
                    result.items[k].offset = nodes[k].offset
              /\ offset = Len(buffer)

\* C1's case: a finished parseAll call on a stream of three elements, one of
\* them constructed with children and one with a long-form length.
C1_Witness ==
    /\ pc = "done" /\ options.parseAll
    /\ WellFormedCount(buffer, 0, Len(buffer)) = 3
    /\ \E k \in 1..3 : Len(nodes[k].children) = 2
    /\ \E k \in 1..3 : Len(nodes[k].length.encodedHex) = 4

\* Whether the children of a constructed node, and of every node below it,
\* exactly fill its content range [offset + header, offset + header +
\* length.value).
RECURSIVE ChildrenFill(_)
ChildrenFill(n) ==
    n.tag.constructed =>
        LET start == HeaderEnd(buffer, n.offset)
            kids  == n.children
        IN  /\ IF kids = <<>> THEN n.length.value = 0
               ELSE /\ kids[1].offset = start
                    /\ DeclaredEnd(kids[Len(kids)]) = DeclaredEnd(n)
            /\ \A k \in 1..Len(kids) :
                  /\ DeclaredEnd(kids[k]) <= DeclaredEnd(n)
                  /\ k < Len(kids) => DeclaredEnd(kids[k]) = kids[k + 1].offset
                  /\ ChildrenFill(kids[k])

\* C2: in every node the decoder returns, on any buffer, the children of a
\* constructed node exactly fill its content range and none passes its
\* parent's declared end.
C2_ChildrenFillParent ==
    pc = "done" => \A k \in 1..Len(nodes) : ChildrenFill(nodes[k])

\* The element at the cursor has a readable header and its unsigned declared
\* length exceeds the bytes that remain after the header.
DeclaredTooLong ==
    /\ pc = "loop" /\ offset < Len(buffer)
    /\ HeaderEnd(buffer, offset) >= 0
    /\ DeclaredExceeds(buffer, TagEnd(buffer, offset),
                       Len(buffer) - HeaderEnd(buffer, offset))

\* C3: decoding an element whose declared length exceeds the bytes remaining
\* after its header produces no node and records one error that names the
\* element's start offset, with the cursor still at the end of the header
\* (no value byte read, no child decoded) and within the buffer.
C3_DeclaredLengthChecked ==
    [][DeclaredTooLong =>
          /\ nodes' = nodes
          /\ Len(errors') = Len(errors) + 1
          /\ errors'[Len(errors')].kind = "Declared length extends beyond buffer"
          /\ errors'[Len(errors')].at = offset
          /\ offset' = HeaderEnd(buffer, offset)
          /\ offset' <= Len(buffer)]_vars

\* C4: a step that records an error leaves the nodes decoded so far as they
\* are, makes the errors list hold exactly that one entry and ends the loop;
\* after the loop has ended nothing more is decoded, and the call returns
\* those nodes and that errors list.
C4_StopAtFirstError ==
    [][/\ Len(errors') > Len(errors) =>
             /\ nodes' = nodes
             /\ errors = <<>> /\ Len(errors') = 1
             /\ pc' = "return"
       /\ pc # "loop" => /\ nodes' = nodes
                         /\ errors' = errors
                         /\ offset' = offset
       /\ (pc = "return" /\ options.parseAll) =>
             /\ result'.errors = errors
             /\ Len(result'.items) = Len(nodes)
             /\ ~options.simplify => result'.items = nodes
       /\ (pc' = "return" /\ errors' = <<>> /\ options.parseAll) =>
             offset' >= Len(buffer)]_vars

\* C4's case: a parseAll call that has returned two nodes and one error, with
\* bytes left over after the failing element.
C4_Witness ==
    /\ pc = "done" /\ options.parseAll /\ ~options.simplify
    /\ Len(result.items) = 2 /\ Len(result.errors) = 1
    /\ result.errors[1].cursor < Len(buffer)

\* C5: parseASN1 never throws.
C5_NeverThrows == pc # "threw"

\* The DER bytes that an input carries to loadX509FromBufferSync: the input
\* itself, or what the first PEM block encodes.
Carried == IF made.kind = "pem" THEN made.blocks[1].der ELSE given

\* C6: loadX509FromBufferSync throws on an empty input, on bytes of which no
\* top-level element can be decoded, and on a first element that is not a
\* SEQUENCE; it returns a certificate only for a root that is a constructed
\* element of class UNIVERSAL with tag number 16 (identifier byte 0x30).
C6_RootIsUniversalSequence ==
    call = "loadX509FromBufferSync" =>
        /\ given = <<>> => outcome.threw
        /\ made.kind = "raw" => outcome.threw
        /\ ~outcome.threw => (Carried # <<>> /\ Carried[1] = 48)

\* What a PEM block decodes to on its own: loadX509FromBufferSync of the
\* bytes it encodes.
BlockDecodes(b) ==
    IF b.decodes THEN ~loadX509FromBufferSync(b.der).threw ELSE FALSE
BlockCertificate(b) == loadX509FromBufferSync(b.der).certs[1]

\* C7: loadX509AllFromBufferSync on PEM text of k blocks (each with at least
\* a line break between its markers) returns k certificates, the i-th the
\* certificate of the i-th block alone, when every block decodes, and throws
\* without a list when one does not; on an input that is not PEM it returns
\* one certificate or throws; it never returns an empty list.
C7_OneCertificatePerBlock ==
    call = "loadX509AllFromBufferSync" =>
        /\ made.kind = "pem" =>
              IF \A i \in 1..Len(made.blocks) : BlockDecodes(made.blocks[i])
              THEN /\ ~outcome.threw
                   /\ Len(outcome.certs) = Len(made.blocks)
                   /\ \A i \in 1..Len(made.blocks) :
                         outcome.certs[i] = BlockCertificate(made.blocks[i])
              ELSE outcome.threw /\ outcome.certs = <<>>
        /\ (made.kind # "pem" /\ ~outcome.threw) => Len(outcome.certs) = 1
        /\ ~outcome.threw => Len(outcome.certs) >= 1

\* C7's case: a call on PEM text of two blocks has returned two certificates
\* that differ.
C7_Witness ==
    /\ call = "loadX509AllFromBufferSync"
    /\ made.kind = "pem" /\ Len(made.blocks) = 2
    /\ ~outcome.threw /\ Len(outcome.certs) = 2
    /\ outcome.certs[1] # outcome.certs[2]

\* C8: parseX509Certificate returns a certificate only for a root that is a
\* constructed SEQUENCE with exactly three children; for any other root it
\* throws.
C8_ExactlyThreeChildren ==
    (call = "parseX509Certificate" /\ ~outcome.threw) =>
        /\ made.template.root = 48
        /\ made.template.count = 3

\* The two's-complement value of the bytes of an INTEGER.
RECURSIVE TwosComplement(_)
TwosComplement(bytes) ==
    IF Len(bytes) = 1
    THEN (IF bytes[1] >= 128 THEN bytes[1] - 256 ELSE bytes[1])
    ELSE TwosComplement(SubSeq(bytes, 1, Len(bytes) - 1)) * 256
         + bytes[Len(bytes)]

\* Where the content of TBSCertificate starts in a DER input.
TBSContent == HeaderEnd(given, HeaderEnd(given, 0))

\* The returned certificate's serialNumber is the element at offset `at`,
\* the template's serialNumber.
SerialTakenAt(at) ==
    /\ outcome.certs[1].serialNumber.asn1.offset = at
    /\ outcome.certs[1].serialNumber.asn1.fullHex = bytesToHex(made.template.serial)
    /\ outcome.certs[1].serialNumber.value =
          Val("hex", 0, bytesToHex(SubSeq(made.template.serial, 3,
                                          Len(made.template.serial))))

\* C9: when the first child of TBSCertificate is not a CONTEXT-SPECIFIC [0]
\* the version is 1 and that child is the serialNumber; when it is a
\* CONTEXT-SPECIFIC [0] around INTEGER n the version is n + 1 and the
\* serialNumber is the next child.
C9_VersionAndSerial ==
    (call = "parseX509Certificate" /\ ~outcome.threw) =>
        /\ made.template.version.form = "absent" =>
              /\ outcome.certs[1].version.value = Val("int", 1, <<>>)
              /\ SerialTakenAt(TBSContent)
        /\ made.template.version.form = "integer" =>
              /\ outcome.certs[1].version.value =
                    Val("int", TwosComplement(made.template.version.bytes) + 1,
                        <<>>)
              /\ SerialTakenAt(TBSContent + Len(VersionBytes(made.template.version)))

\* The decoded values of the extensions of a certificate, and of its other
\* fields.
ExtensionValues(c) ==
    [k \in 1..Len(c.extensions.list) |->
        [extnID |-> c.extensions.list[k].extnID.value,
         critical |-> c.extensions.list[k].critical.value,
         value |-> c.extensions.list[k].value.value]]

FieldValues(c) ==
    <<c.version.value, c.serialNumber.value, c.signatureAlgorithm.value,
      c.issuer.formatted.value, c.issuer.fields.value,
      c.validity.notBefore.value, c.validity.notAfter.value,
      c.subject.formatted.value, c.subject.fields.value,
      c.subjectPublicKeyInfo.algorithm.value,
      c.subjectPublicKeyInfo.publicKey.value,
      c.signatureAlgorithmCert.value, c.signatureValue.value>>

\* The list without its i-th entry, and the template without its i-th
\* extension.
Without(list, i) == SubSeq(list, 1, i - 1) \o SubSeq(list, i + 1, Len(list))
WithoutExtension(t, i) == [t EXCEPT !.exts = Without(t.exts, i)]

\* The certificate of a template.
CertificateOf(t) ==
    parseX509Certificate(parseASN1(DER(t), ParseAll).items[1]).certs[1]

\* The i-th extension of the returned certificate has the raw hex of its
\* extnValue content as value, and the certificate is otherwise the one of
\* the template without that extension.
PassedThrough(i) ==
    /\ outcome.certs[1].extensions.list[i].value.value =
          Val("hex", 0, bytesToHex(made.template.exts[i].content))
    /\ Without(ExtensionValues(outcome.certs[1]), i) =
          ExtensionValues(CertificateOf(WithoutExtension(made.template, i)))
    /\ FieldValues(outcome.certs[1]) =
          FieldValues(CertificateOf(WithoutExtension(made.template, i)))

\* C10: an extension whose extnID is not one of the nine dispatched OIDs has
\* the raw hex of its extnValue content as decoded value, and its presence
\* changes neither the decoded values, order and number of the other
\* extensions nor any other field of the certificate.
C10_UnknownExtensionPassesThrough ==
    (call = "parseX509Certificate" /\ ~outcome.threw) =>
        \A i \in 1..Len(made.template.exts) :
            ~made.template.exts[i].dispatched => PassedThrough(i)

\* A template whose root, mandatory fields and extension list are
\* well-formed: a SEQUENCE of three children, the version absent or
\* [0] { INTEGER }, an INTEGER serialNumber, every extnValue a primitive
\* OCTET STRING.
WellFormedTemplate(t) ==
    /\ t.root = 48 /\ t.count = 3
    /\ t.version.form \in {"absent", "integer"}
    /\ t.serial[1] = 2
    /\ \A i \in 1..Len(t.exts) : t.exts[i].value[1] = 4

\* C11: parseX509Certificate of a certificate whose root, mandatory fields
\* and extension list are well-formed returns, whatever the content of each
\* extnValue is, for every dispatched OID and every GeneralName tag.
C11_ExtensionFailuresAbsorbed ==
    (call = "parseX509Certificate" /\ WellFormedTemplate(made.template))
        => ~outcome.threw

\* The decoded value of the i-th extension of the returned certificate.
ExtensionValue(i) == outcome.certs[1].extensions.list[i].value.value

\* C12: an extension with a dispatched OID whose content cannot be
\* re-decoded as ASN.1, or has not the shape of the extension's grammar, has
\* the raw hex of its extnValue content as decoded value.
C12_MalformedFallsBackToRawHex ==
    (call = "parseX509Certificate" /\ ~outcome.threw) =>
        \A i \in 1..Len(made.template.exts) :
            made.template.exts[i].form \in {"shape", "undecodable"} =>
                /\ ExtensionValue(i).kind = "hex"
                /\ ExtensionValue(i).data =
                      bytesToHex(made.template.exts[i].content)

\* Bit i (from 0, the most significant bit of the first byte first) of the
\* bytes d is 1 and lies within the first 8 * Len(d) - u bits.
MeaningfulBit(u, d, i) ==
    /\ i < 8 * Len(d) - u
    /\ (d[(i \div 8) + 1] \div Pow2(7 - (i % 8))) % 2 = 1

\* C13: the decoded value of a keyUsage extension with u unused bits and the
\* data bytes d maps each of the nine names, of the bits 0..8, to whether that
\* bit is one of the 8 * Len(d) - u meaningful bits and is 1.
C13_KeyUsageBits ==
    (call = "parseX509Certificate" /\ ~outcome.threw) =>
        \A k \in 1..Len(made.template.exts) :
            made.template.exts[k].form = "keyUsage" =>
                /\ ExtensionValue(k).kind = "keyUsage"
                /\ \A i \in 0..8 :
                      ExtensionValue(k).data[KeyUsageLabels[i + 1]]
                          = MeaningfulBit(made.template.exts[k].about.unused,
                                          made.template.exts[k].about.data, i)

\* C14: the decoded value of a basicConstraints extension in a primitive
\* OCTET STRING is {cA: b} for SEQUENCE { BOOLEAN b }, without a
\* pathLenConstraint, and {cA: b, pathLenConstraint: n} for
\* SEQUENCE { BOOLEAN b, INTEGER n }.
C14_BasicConstraintsDecoded ==
    (call = "parseX509Certificate" /\ ~outcome.threw) =>
        \A k \in 1..Len(made.template.exts) :
            made.template.exts[k].form = "basicConstraints" =>
                /\ ExtensionValue(k).kind = "basicConstraints"
                /\ ExtensionValue(k).data.hasCA
                /\ ExtensionValue(k).data.cA = made.template.exts[k].about.cA
                /\ ExtensionValue(k).data.hasPathLenConstraint
                      = made.template.exts[k].about.hasPathLen
                /\ made.template.exts[k].about.hasPathLen =>
                      ExtensionValue(k).data.pathLenConstraint
                          = Val("int", made.template.exts[k].about.pathLen, <<>>)

(***************************************************************************)
(* C15: the arcs of an OBJECT IDENTIFIER                                   *)
(***************************************************************************)

\* The groups of content bytes after the first: each ends at the first byte
\* with bit 0x80 clear and is written as its 7-bit digits. Bytes after the
\* last complete group belong to no group.
RECURSIVE ArcGroups(_, _, _)
ArcGroups(c, i, digits) ==
    IF i > Len(c) THEN <<>>
    ELSE IF c[i] < 128
         THEN <<Append(digits, c[i])>> \o ArcGroups(c, i + 1, <<>>)
         ELSE ArcGroups(c, i + 1, Append(digits, c[i] % 128))

\* A digit string without its leading zeros.
RECURSIVE StripZeros(_)
StripZeros(digits) ==
    IF digits # <<>> /\ Head(digits) = 0 THEN StripZeros(Tail(digits))
    ELSE digits

\* The base-128 digits of n >= 0, most significant first; none for 0.
RECURSIVE Digits128(_)
Digits128(n) == IF n = 0 THEN <<>> ELSE Append(Digits128(n \div 128), n % 128)

\* Whether arc is the unsigned base-128 big-endian value of the group.
IsUnsignedValue(arc, group) ==
    arc >= 0 /\ Digits128(arc) = StripZeros(group)

OIDContent == SubSeq(buffer, 3, Len(buffer))

\* C15: for every non-empty OBJECT IDENTIFIER content the decoded arcs are
\* floor(b0/40), b0 mod 40 and then, for each group of bytes ending at the
\* first byte with bit 0x80 clear, the unsigned base-128 big-endian value of
\* the group; 2A 86 48 86 F7 0D 01 01 01 decodes to 1.2.840.113549.1.1.1,
\* whose label is rsaEncryption.
C15_OIDArcs ==
    (pc = "done" /\ buffer \in OIDElements) =>
        LET arcs   == nodes[1].decoded.data
            groups == ArcGroups(OIDContent, 2, <<>>)
        IN  /\ nodes[1].decoded.kind = "oid"
            /\ Len(arcs) = 2 + Len(groups)
            /\ arcs[1] = OIDContent[1] \div 40
            /\ arcs[2] = OIDContent[1] % 40
            /\ \A k \in 1..Len(groups) : IsUnsignedValue(arcs[k + 2], groups[k])
            /\ OIDContent = <<42, 134, 72, 134, 247, 13, 1, 1, 1>> =>
                   /\ arcs = <<1, 2, 840, 113549, 1, 1, 1>>
                   /\ getOIDLabel(nodes[1].decoded).known
                   /\ getOIDLabel(nodes[1].decoded).text = "rsaEncryption"

(***************************************************************************)
(* C16: the instant of a UTCTime                                           *)
(***************************************************************************)

\* The form YYMMDDhhmm[ss]Z: ten or twelve digits and the letter Z.
UTCTimeForm(str) ==
    /\ Len(str) \in {11, 13}
    /\ str[Len(str)] = 90
    /\ \A i \in 1..(Len(str) - 1) : str[i] >= 48 /\ str[i] <= 57

\* The number that two digits at str[i], str[i + 1] write.
TwoDigits(str, i) == (str[i] - 48) * 10 + (str[i + 1] - 48)

\* The calendar date <<year, month, day>> of a day counted from 1970-01-01
\* in the proleptic Gregorian calendar.
CivilFromDays(days) ==
    LET z   == days + 719468
        era == z \div 146097
        doe == z - era * 146097
        yoe == (doe - (doe \div 1460) + (doe \div 36524) - (doe \div 146096))
                   \div 365
        doy == doe - (365 * yoe + (yoe \div 4) - (yoe \div 100))
        mp  == (5 * doy + 2) \div 153
        d   == doy - ((153 * mp + 2) \div 5) + 1
        m   == IF mp < 10 THEN mp + 3 ELSE mp - 9
        y   == yoe + era * 400
    IN  <<IF m <= 2 THEN y + 1 ELSE y, m, d>>

\* The fields <<year, month, day, hour, minute, second>> of an instant.
InstantFields(instant) ==
    CivilFromDays(instant[1]) \o
        <<instant[2] \div 3600, (instant[2] \div 60) % 60, instant[2] % 60>>

\* The fields that a string of the form YYMMDDhhmm[ss]Z gives.
UTCTimeFields(str) ==
    << IF TwoDigits(str, 1) < 50 THEN 2000 + TwoDigits(str, 1)
                                 ELSE 1900 + TwoDigits(str, 1),
       TwoDigits(str, 3), TwoDigits(str, 5), TwoDigits(str, 7),
       TwoDigits(str, 9), IF Len(str) = 13 THEN TwoDigits(str, 11) ELSE 0 >>

TimeContent == SubSeq(buffer, 3, Len(buffer))

\* C16: for every UTCTime content of the form YYMMDDhhmm[ss]Z the decoded
\* value is the UTC instant whose year is 2000+YY when YY < 50 and 1900+YY
\* otherwise and whose month, day, hour, minute and second are the given
\* ones (second 0 when omitted); "230101120000Z" is 2023-01-01T12:00:00Z
\* (day 19358, second 43200) and "700101000000Z" is 1970-01-01T00:00:00Z.
C16_UTCTimeInstant ==
    (pc = "done" /\ buffer \in UTCTimeElements /\ UTCTimeForm(TimeContent)) =>
        /\ nodes[1].decoded.kind = "date"
        /\ nodes[1].decoded.num = 0
        /\ InstantFields(nodes[1].decoded.data) = UTCTimeFields(TimeContent)
        /\ TimeContent = <<50, 51, 48, 49, 48, 49, 49, 50, 48, 48, 48, 48, 90>> =>
               nodes[1].decoded.data = <<19358, 43200>>
        /\ TimeContent = <<55, 48, 48, 49, 48, 49, 48, 48, 48, 48, 48, 48, 90>> =>
               nodes[1].decoded.data = <<0, 0>>

(***************************************************************************)
(* C17: the times of the validity                                          *)
(***************************************************************************)

\* The form YYYYMMDDhhmm[ss]Z: twelve or fourteen digits and the letter Z.
GeneralizedTimeForm(str) ==
    /\ Len(str) \in {13, 15}
    /\ str[Len(str)] = 90
    /\ \A i \in 1..(Len(str) - 1) : str[i] >= 48 /\ str[i] <= 57

\* Whether the content of a time matches the supported pattern of its tag.
SupportedTime(time) ==
    IF time.tag = 23 THEN UTCTimeForm(time.text)
    ELSE GeneralizedTimeForm(time.text)

\* A valid instant when the time matches, else the string of the time.
InstantOrRaw(time, value) ==
    IF SupportedTime(time) THEN value.kind = "date" /\ value.num = 0
    ELSE value.kind = "string" /\ value.data = time.text

\* C17: in every decoded certificate validity.notBefore and
\* validity.notAfter are each a valid UTC instant when the content of the
\* time matches the pattern of its tag (YYMMDDhhmm[ss]Z for UTCTime,
\* YYYYMMDDhhmm[ss]Z for GeneralizedTime) and exactly the raw string of the
\* time when it does not: a string that does not match never gives an
\* instant, valid or invalid.
C17_ValidityInstantOrRaw ==
    (/\ call = "parseX509Certificate"
     /\ WellFormedTemplate(made.template)
     /\ ~outcome.threw) =>
        /\ InstantOrRaw(made.template.notBefore,
                        outcome.certs[1].validity.notBefore.value)
        /\ InstantOrRaw(made.template.notAfter,
                        outcome.certs[1].validity.notAfter.value)

(***************************************************************************)
(* C18: simplifyX509Certificate                                            *)
(***************************************************************************)

Provenance == {"asn1", "offset", "fullHex", "tag"}

\* A record without a field of provenance.
Bare(record) == DOMAIN record \cap Provenance = {}

\* The certificate given to simplifyX509Certificate, as it is now.
Source == outcome.certs[simplified.index]

\* Entry k of the simplified extensions is {oid, label, critical, value}
\* of extension k of the source.
SameExtension(entry, ext) ==
    /\ DOMAIN entry = {"oid", "label", "critical", "value"}
    /\ entry.oid = ext.extnID.value.oid
    /\ entry.label = ext.extnID.value.label
    /\ entry.critical = ext.critical.value
    /\ entry.value = ext.value.value

SameExtensions(list, extensions) ==
    /\ list.present = extensions.present
    /\ Len(list.list) = Len(extensions.list)
    /\ \A k \in 1..Len(list.list) :
          SameExtension(list.list[k], extensions.list[k])

\* Every field is the value of the field of the certificate.
SameValues(s, cert) ==
    /\ DOMAIN s = {"version", "serialNumber", "signatureAlgorithm", "issuer",
                   "validity", "subject", "subjectPublicKeyInfo",
                   "extensions", "signatureAlgorithmCert", "signatureValue"}
    /\ s.version = cert.version.value
    /\ s.serialNumber = cert.serialNumber.value
    /\ s.signatureAlgorithm = cert.signatureAlgorithm.value
    /\ DOMAIN s.issuer = {"formatted", "fields"}
    /\ s.issuer.formatted = cert.issuer.formatted.value
    /\ s.issuer.fields = cert.issuer.fields.value
    /\ DOMAIN s.validity = {"notBefore", "notAfter"}
    /\ s.validity.notBefore = cert.validity.notBefore.value
    /\ s.validity.notAfter = cert.validity.notAfter.value
    /\ DOMAIN s.subject = {"formatted", "fields"}
    /\ s.subject.formatted = cert.subject.formatted.value
    /\ s.subject.fields = cert.subject.fields.value
    /\ DOMAIN s.subjectPublicKeyInfo = {"algorithm", "publicKey"}
    /\ s.subjectPublicKeyInfo.algorithm
          = cert.subjectPublicKeyInfo.algorithm.value
    /\ s.subjectPublicKeyInfo.publicKey
          = cert.subjectPublicKeyInfo.publicKey.value
    /\ s.signatureAlgorithmCert = cert.signatureAlgorithmCert.value
    /\ s.signatureValue = cert.signatureValue.value

\* No field carries offset, fullHex or tag.
NoProvenance(s) ==
    /\ Bare(s) /\ Bare(s.version) /\ Bare(s.serialNumber)
    /\ Bare(s.signatureAlgorithm) /\ Bare(s.issuer) /\ Bare(s.validity)
    /\ Bare(s.issuer.formatted) /\ Bare(s.subject.formatted)
    /\ Bare(s.validity.notBefore) /\ Bare(s.validity.notAfter)
    /\ Bare(s.subject) /\ Bare(s.subjectPublicKeyInfo)
    /\ Bare(s.subjectPublicKeyInfo.algorithm)
    /\ Bare(s.subjectPublicKeyInfo.publicKey)
    /\ Bare(s.signatureAlgorithmCert) /\ Bare(s.signatureValue)
    /\ \A k \in 1..Len(s.issuer.fields) : Bare(s.issuer.fields[k])
    /\ \A k \in 1..Len(s.subject.fields) : Bare(s.subject.fields[k])
    /\ \A k \in 1..Len(s.extensions.list) :
          Bare(s.extensions.list[k]) /\ Bare(s.extensions.list[k].value)

\* C18: simplifyX509Certificate(cert) returns a record whose every field
\* is the .value of the field of cert and carries no offset, fullHex or
\* tag; its extension list has the length and the order of the list of
\* cert (and is absent when cert has none), each entry {oid, label,
\* critical, value} of the source extension; cert is left as it was.
C18_SimplifiedKeepsValues ==
    simplified.done =>
        /\ outcome = simplified.before
        /\ SameValues(simplified.cert, Source)
        /\ SameExtensions(simplified.cert.extensions, Source.extensions)
        /\ NoProvenance(simplified.cert)

\* A certificate with two extensions, one of them critical, has been
\* simplified.
C18_Witness ==
    /\ simplified.done
    /\ Len(Source.extensions.list) = 2
    /\ Source.extensions.list[1].critical.value
    /\ ~Source.extensions.list[2].critical.value
    /\ Len(simplified.cert.extensions.list) = 2

\* A certificate without extensions has been simplified.
C18_WitnessAbsent ==
    /\ simplified.done
    /\ ~Source.extensions.present
    /\ ~simplified.cert.extensions.present

(***************************************************************************)
(* C19: two decodes at once                                                *)
(***************************************************************************)

\* One turn of the loop of a parser that runs alone.
aloneTurn(parser) ==
    afterTurn(parser,
              parseIteration(parser.buffer, parser.offset, parser.nodes,
                             parser.errors, parser.options))

\* The parser of parseASN1(buf, opts) after k turns of the loop, alone.
RECURSIVE AloneAfter(_, _, _)
AloneAfter(buf, opts, k) ==
    IF k = 0 THEN Parser(buf, opts)
    ELSE aloneTurn(AloneAfter(buf, opts, k - 1))

\* The cursor, the errors and the nodes of the parser are those of the
\* parser alone, and so is the result once the call is over.
SameAsAlone(parser, alone) ==
    /\ parser.offset = alone.offset
    /\ parser.errors = alone.errors
    /\ parser.nodes = alone.nodes
    /\ parser.pc \in {"done", "threw"} =>
          parser.result = parseASN1(parser.buffer, parser.options)

RECURSIVE Digits256(_)
Digits256(n) == IF n = 0 THEN <<>> ELSE Append(Digits256(n \div 256), n % 256)

\* Whether value is the length that the length field at byte q writes: the
\* byte itself when its high bit is clear, else the unsigned big-endian
\* value of the bytes that follow it.
IsDeclaredLength(value, buf, q) ==
    IF buf[q + 1] < 128 THEN value = buf[q + 1]
    ELSE /\ value >= 0
         /\ Digits256(value)
              = StripZeros(SubSeq(buf, q + 2, q + 1 + (buf[q + 1] - 128)))

\* C20: the length recorded in a node (length.value) is the length byte
\* itself when its high bit is clear and otherwise the unsigned big-endian
\* value of the following 1 to 4 bytes; it is never negative.
C20_LengthIsUnsigned ==
    \A k \in 1..Len(nodes) :
        /\ nodes[k].length.value >= 0
        /\ IsDeclaredLength(nodes[k].length.value, buffer,
                            TagEnd(buffer, nodes[k].offset))

(***************************************************************************)
(* C21: length fields that are rejected                                    *)
(***************************************************************************)

\* Every node of a list of nodes, with the nodes below it.
RECURSIVE Flatten(_)
Flatten(list) ==
    IF list = <<>> THEN <<>>
    ELSE <<Head(list)>> \o Flatten(Head(list).children) \o Flatten(Tail(list))

\* The first byte of the length field at byte q is the indefinite form or
\* announces more than four bytes.
UnsupportedLength(buf, q) == buf[q + 1] = 128 \/ buf[q + 1] > 132

\* The length field at byte q is the long form of 1..4 bytes and the buffer
\* ends before the last of them.
TruncatedLength(buf, q) ==
    /\ buf[q + 1] > 128 /\ buf[q + 1] <= 132
    /\ q + 1 + (buf[q + 1] - 128) > Len(buf)

\* The loop is about to decode an element whose tag is followed by a byte.
AtLengthField ==
    /\ pc = "loop" /\ offset < Len(buffer)
    /\ TagEnd(buffer, offset) >= 0
    /\ TagEnd(buffer, offset) < Len(buffer)

\* The step adds no node and one error of the kind, and ends the loop.
RejectedWith(kind) ==
    /\ nodes' = nodes
    /\ Len(errors') = Len(errors) + 1
    /\ errors'[Len(errors')].kind = kind
    /\ pc' = "return"

\* The element that the loop is about to decode has an unsupported length
\* field; has a long-form length field cut short by the end of the buffer.
AtUnsupportedLength ==
    AtLengthField /\ UnsupportedLength(buffer, TagEnd(buffer, offset))
AtTruncatedLength ==
    AtLengthField /\ TruncatedLength(buffer, TagEnd(buffer, offset))

\* C21: an element whose length field is the indefinite form (0x80) or
\* announces more than 4 length bytes (0x85..0xFF) is rejected with an
\* error and no node, at any depth, is made of such an element; a long-form
\* length whose bytes run past the end of the buffer is rejected with the
\* cursor after the first byte of the length field, within the buffer.
C21_UnsupportedLengthRejected ==
    /\ [](\A k \in 1..Len(Flatten(nodes)) :
            ~UnsupportedLength(buffer,
                               TagEnd(buffer, Flatten(nodes)[k].offset)))
    /\ [][(AtUnsupportedLength => RejectedWith("Invalid length encoding"))
           /\ (AtTruncatedLength =>
                  (/\ RejectedWith("Length extends beyond buffer")
                   /\ offset' = TagEnd(buffer, offset) + 1
                   /\ offset' <= Len(buffer)))]_vars

\* The call has ended on a child whose length field is the indefinite form:
\* one error, no node.
C21_Witness ==
    /\ pc = "done"
    /\ buffer = <<48, 4, 2, 128, 0, 0>>
    /\ nodes = <<>>
    /\ Len(errors) = 1
    /\ errors[1].kind = "Invalid length encoding"

(***************************************************************************)
(* C22: the scalar decoders and the tag class                              *)
(***************************************************************************)

\* The value of a primitive node is rawHex alone.
RawOnly(node) == node.decoded.kind = "none" /\ ~node.hasBase64

\* C22: a primitive element whose tag class is CONTEXT-SPECIFIC,
\* APPLICATION or PRIVATE is returned with rawHex only, with no decoded and
\* no base64 value, whatever its tag number: the scalar decoders are for
\* UNIVERSAL elements.
C22_DecodersForUniversalOnly ==
    \A k \in 1..Len(Flatten(nodes)) :
        (/\ ~Flatten(nodes)[k].tag.constructed
         /\ Flatten(nodes)[k].tag.class # "UNIVERSAL") =>
            RawOnly(Flatten(nodes)[k])

(***************************************************************************)
(* C23: the value of an INTEGER                                            *)
(***************************************************************************)

\* The bytes with every bit inverted.
Inverted(bytes) == [i \in 1..Len(bytes) |-> 255 - bytes[i]]

\* Whether n is the big-endian two's-complement value of the bytes: for a
\* first byte below 0x80 the unsigned value; else the negative number whose
\* complement -(n + 1) is the unsigned value of the inverted bytes.
IsTwosComplement(n, bytes) ==
    IF bytes[1] < 128
    THEN n >= 0 /\ Digits256(n) = StripZeros(bytes)
    ELSE n < 0 /\ Digits256(0 - (n + 1)) = StripZeros(Inverted(bytes))

IntegerContent == SubSeq(buffer, 3, Len(buffer))

\* C23: for every INTEGER or ENUMERATED content of 1 to 6 bytes the decoded
\* number is the big-endian two's-complement value of all the bytes,
\* negative iff the high bit of the first byte is set: FF FF FF FF is -1 and
\* 00 80 00 00 00 is 2147483648.
C23_IntegerIsTwosComplement ==
    (pc = "done" /\ buffer \in IntegerElements) =>
        /\ nodes[1].decoded.kind = "int"
        /\ IsTwosComplement(nodes[1].decoded.num, IntegerContent)
        /\ IntegerContent = <<255, 255, 255, 255>> => nodes[1].decoded.num = -1

(***************************************************************************)
(* C24: the three parts of an extension                                    *)
(***************************************************************************)

\* The elements that a string of elements with short-form lengths is made
\* of.
RECURSIVE Split(_)
Split(bytes) ==
    IF bytes = <<>> THEN <<>>
    ELSE <<SubSeq(bytes, 1, 2 + bytes[2])>>
         \o Split(SubSeq(bytes, 3 + bytes[2], Len(bytes)))

\* The children of the i-th extension SEQUENCE of the template.
ExtensionChildren(i) ==
    Split(made.template.exts[i].id \o made.template.exts[i].critical
            \o made.template.exts[i].value)

\* Whether the element is a BOOLEAN with a content other than 00.
IsTrue(tlv) == tlv[1] = 1 /\ tlv[3] # 0

\* The parts of the returned extension are taken from the children kids.
PartsTakenFrom(ext, kids) ==
    /\ ext.extnID.asn1.fullHex = bytesToHex(kids[1])
    /\ ext.value.asn1.fullHex = bytesToHex(kids[Len(kids)])
    /\ ext.critical.value = (Len(kids) = 3 /\ IsTrue(kids[2]))

\* C24: for every extension SEQUENCE, extnID is taken from its first child
\* and the value from its last child, and critical is the decoded BOOLEAN
\* of the second child if and only if the SEQUENCE has exactly three
\* children, false otherwise.
C24_ExtensionParts ==
    (call = "parseX509Certificate" /\ ~outcome.threw
        /\ made.template.exts # <<>>) =>
        /\ outcome.certs[1].extensions.present
        /\ Len(outcome.certs[1].extensions.list) = Len(made.template.exts)
        /\ \A i \in 1..Len(made.template.exts) :
              PartsTakenFrom(outcome.certs[1].extensions.list[i],
                             ExtensionChildren(i))

\* A certificate returned for extensions of four children and of two.
C24_Witness ==
    /\ call = "parseX509Certificate" /\ ~outcome.threw
    /\ Len(made.template.exts) = 2
    /\ Len(ExtensionChildren(1)) = 4
    /\ Len(ExtensionChildren(2)) = 2
    /\ ~outcome.certs[1].extensions.list[1].critical.value

(***************************************************************************)
(* C25: the children after subjectPublicKeyInfo                            *)
(***************************************************************************)

\* The template with the [3] of its extensions as only optional child.
ExtensionsAlone(t) == WithOptional(t, <<>>, <<>>)

\* C25: the extensions are taken only from a CONTEXT-SPECIFIC [3] child
\* whose first inner element is a SEQUENCE: the other children after
\* subjectPublicKeyInfo (issuerUniqueID [1], subjectUniqueID [2], a [3]
\* around anything else), in any number and position, change no field of the
\* certificate, and without such a [3] the extensions are absent.
C25_OnlyTheExtensionsField ==
    (call = "parseX509Certificate" /\ ~outcome.threw) =>
        /\ outcome.certs[1].extensions.present = (made.template.exts # <<>>)
        /\ ExtensionValues(outcome.certs[1]) =
              ExtensionValues(CertificateOf(ExtensionsAlone(made.template)))
        /\ FieldValues(outcome.certs[1]) =
              FieldValues(CertificateOf(ExtensionsAlone(made.template)))

(***************************************************************************)
(* C26: the fields and the formatted string of a Name                      *)
(***************************************************************************)

\* getOIDLabel of the attribute's type OID: the label of OID_MAP, or
\* `Unknown OID (${oid})`.
LabelOf(a) ==
    IF a.label # "" THEN [known |-> TRUE, text |-> a.label, of |-> NoVal]
    ELSE [known |-> FALSE, text |-> "Unknown OID",
          of |-> Val("oid", 0, a.arcs)]

\* {oid, label, value} of the first attribute of every RDN.
FieldsOf(rdns) ==
    [k \in 1..Len(rdns) |->
        [oid |-> Val("oid", 0, rdns[k][1].arcs),
         label |-> LabelOf(rdns[k][1]),
         value |-> Val("string", 0, rdns[k][1].text)]]

\* label=value of the first attribute of every RDN, to be joined by ", ".
PartsOf(rdns) ==
    [k \in 1..Len(rdns) |->
        [label |-> LabelOf(rdns[k][1]),
         value |-> Val("string", 0, rdns[k][1].text)]]

\* What extractName returned is the Name that the template wrote.
ExtractedFrom(extracted, name) ==
    IF name.constructed
    THEN /\ Len(extracted.fields.value) = Len(name.rdns)
         /\ extracted.fields.value = FieldsOf(name.rdns)
         /\ extracted.formatted.value = Val("parts", 0, PartsOf(name.rdns))
    ELSE /\ extracted.fields.value = <<>>
         /\ extracted.formatted.value = Val("string", 0, InvalidName)

\* Whether only the names of the template are other than in a certificate
\* of three children without extensions.
OnlyNamesVary(t) ==
    t = WithNames(Template(48, 3, Version3, <<2, 1, 5>>, <<>>), t.issuer,
                  t.subject)

\* C26: for an issuer or subject that is a SEQUENCE of k RDN SETs the fields
\* are k entries in the order of the RDNs, each the {oid, label, value} of
\* the first attribute of its SET with label = getOIDLabel(oid), and the
\* formatted string is the label=value of the entries joined by ", "; a
\* Name that is not constructed gives "Invalid Name" and no fields, and no
\* error.
C26_NameFields ==
    (call = "parseX509Certificate" /\ OnlyNamesVary(made.template)) =>
        /\ ~outcome.threw
        /\ ExtractedFrom(outcome.certs[1].issuer, made.template.issuer)
        /\ ExtractedFrom(outcome.certs[1].subject, made.template.subject)

\* A certificate with an issuer of three RDNs and a subject that is not
\* constructed.
C26_Witness ==
    /\ call = "parseX509Certificate" /\ ~outcome.threw
    /\ Len(made.template.issuer.rdns) = 3
    /\ ~made.template.subject.constructed
    /\ Len(outcome.certs[1].issuer.fields.value) = 3
    /\ outcome.certs[1].subject.fields.value = <<>>

(***************************************************************************)
(* C27: a directoryName among the GeneralNames                             *)
(***************************************************************************)

\* The Name that a directoryName extension wraps.
WrappedName(e) == CHOOSE n \in Names : e = DirectoryName(n)

\* type=value of the first attribute of every RDN, to be joined by ", ".
RenderedName(name) ==
    Val("joined by ,", 0,
        [k \in 1..Len(name.rdns) |->
            [type |-> Val("oid", 0, name.rdns[k][1].arcs),
             value |-> Val("string", 0, name.rdns[k][1].text)]])

\* C27: a GeneralName [4] (directoryName) around a well-formed Name is
\* decoded again as a Name: its value is, for every RDN of the Name in
\* order, the type OID and the decoded string of the attribute as
\* type=value, joined by ", " ({2.5.4.3, "example"} gives 2.5.4.3 and
\* example, not a placeholder).
C27_DirectoryNameRendered ==
    (call = "parseX509Certificate" /\ ~outcome.threw) =>
        \A i \in 1..Len(made.template.exts) :
            made.template.exts[i].form = "directoryName" =>
                ExtensionValue(i) =
                    Val("generalNames", 0,
                        << [type |-> "directoryName", number |-> 4,
                            value |-> RenderedName(WrappedName(made.template.exts[i]))] >>)

(***************************************************************************)
(* C28: parseASN1 terminates                                               *)
(***************************************************************************)

\* The turn of the top-level loop pushed a node and moved the cursor by at
\* least two bytes, from the offset of that node.
Advanced ==
    /\ Len(nodes') = Len(nodes) + 1
    /\ nodes'[Len(nodes')].offset = offset
    /\ offset' >= offset + 2

\* The turn pushed an error and left the loop.
Stopped ==
    /\ nodes' = nodes
    /\ Len(errors') = Len(errors) + 1
    /\ pc' = "return"

\* Every child of the node starts at least two bytes after the start of
\* the node, and at least two bytes after the start of the child before it.
ChildrenAdvance(node) ==
    \A j \in 1..Len(node.children) :
        node.children[j].offset >=
            (IF j = 1 THEN node.offset ELSE node.children[j - 1].offset) + 2

\* The steps that parse() has left at most: two for every byte after the
\* cursor, two more in the loop, one more before the return.
StepsLeft ==
    2 * (Len(buffer) - offset)
        + (CASE pc = "loop" -> 2 [] pc = "return" -> 1 [] OTHER -> 0)

\* parse() has returned or thrown, or the condition of its next step holds:
\* the loop condition or its negation in the loop, nothing at the return.
ReturnedOrRunning ==
    \/ pc \in {"done", "threw"}
    \/ pc = "loop" /\ offset < Len(buffer)
    \/ pc = "loop" /\ ~(offset < Len(buffer))
    \/ pc = "return"

\* C28: parse() terminates on every buffer: every turn of the top-level
\* loop either pushes a node and advances the cursor by at least two bytes
\* or pushes an error and leaves the loop, every child of a constructed
\* element starts at least two bytes after the element before it, the
\* decoded nodes of all depths are at most half as many as the bytes, and
\* every step takes from the steps left, which are never fewer than none,
\* until the call has returned or thrown.
C28_ParseTerminates ==
    /\ [](/\ 2 * Len(Flatten(nodes)) <= Len(buffer)
          /\ \A k \in 1..Len(Flatten(nodes)) :
                ChildrenAdvance(Flatten(nodes)[k])
          /\ StepsLeft >= 0
          /\ ReturnedOrRunning)
    /\ [][/\ ((pc = "loop" /\ offset < Len(buffer)) => (Advanced \/ Stopped))
          /\ StepsLeft' < StepsLeft]_vars

\* A call that has returned three nodes, two of them children, from eight
\* bytes.
C28_Witness ==
    /\ pc = "done"
    /\ Len(buffer) = 8
    /\ Len(nodes) = 1
    /\ Len(Flatten(nodes)) = 3

(***************************************************************************)
(* C29: the cursor stays within the buffer                                 *)
(***************************************************************************)

\* readByte at the position q of the buffer: one byte further, or a failure
\* at the end that leaves q.
ReadByteAt(q) ==
    /\ readByte(buffer, q).ok = (q < Len(buffer))
    /\ readByte(buffer, q).pos = (IF q < Len(buffer) THEN q + 1 ELSE q)

\* readBytes(n) at the position q: n bytes further, or a failure that
\* leaves q when fewer than n bytes are left.
ReadBytesAt(q, n) ==
    /\ readBytes(buffer, q, n).ok = (n <= Len(buffer) - q)
    /\ readBytes(buffer, q, n).pos = (IF n <= Len(buffer) - q THEN q + n ELSE q)

\* C29: the cursor is never before the start or after the end of the
\* buffer and never moves back, every node starts within the buffer, and a
\* readByte or readBytes(n) that would pass the end fails and leaves the
\* cursor where it was.
C29_CursorWithinBuffer ==
    /\ [](/\ 0 <= offset /\ offset <= Len(buffer)
          /\ \A k \in 1..Len(Flatten(nodes)) :
                /\ 0 <= Flatten(nodes)[k].offset
                /\ Flatten(nodes)[k].offset < Len(buffer)
          /\ \A q \in 0..Len(buffer) :
                /\ ReadByteAt(q)
                /\ \A n \in 0..(Len(buffer) + 1) : ReadBytesAt(q, n))
    /\ [][offset' >= offset]_vars

\* A call that has ended on a read past the end, the cursor at the end of
\* a buffer that has bytes.
C29_Witness ==
    /\ pc = "done"
    /\ Len(errors) = 1
    /\ errors[1].kind = "RangeError"
    /\ offset = Len(buffer)
    /\ offset > 0

(***************************************************************************)
(* C30: bytes after the certificate                                        *)
(***************************************************************************)

\* The bytes that the input has after the certificate of its template.
AfterCertificate ==
    SubSeq(given, Len(DER(made.template)) + 1, Len(given))

\* The input is taken as DER: its text has no BEGIN marker.
TakenAsDER == ~includesBegin(bufferToUtf8(given))

====
